---- MODULE Spec2Model ----
(***************************************************************************)
(* Model of the wealth backend: the broker-discovery session table         *)
(* (portfolio/views.py), the per-user credential encryption                *)
(* (accounts/views.py, core/user_encryption.py, core/kek_auth.py), the     *)
(* account sync views (portfolio/views.py) and the broker integrations     *)
(* (brokers/integrations).                                                 *)
(***************************************************************************)
EXTENDS Integers, FiniteSets, Sequences, TLC

\* ------------------------------------------------------------------------
\* Bounds of the model
\* ------------------------------------------------------------------------
\* number of discovery requests that create an integration
MaxDiscover == 3
\* number of clock ticks
MaxTicks == 4
\* seconds that pass in one clock tick
TickSeconds == 200
\* request threads that may run at the same time
NThreads == 2
\* number of integrations created while requests overlap
ConcDiscover == 2
\* accounts of the user
NAccounts == 2
\* successful KEK rotations
MaxRotations == 2
\* user keys generated by overlapping migration requests
MaxKeys == 3
\* discovery requests in the runs of the sync views
MaxSyncDiscover == 1
\* sync and credentials requests in one run
MaxSyncRequests == 2
\* calls made on one integration instance
MaxIntegCalls == 4
\* polls of the authenticate() loop (for attempt in range(max_attempts))
AuthPollAttempts == 60
\* polls of the complete_2fa() loop
Complete2faPollAttempts == 120
\* sync requests that persist a balance, in one run
MaxDataSyncs == 2
\* HISTORICAL_BACKFILL_MAX_LOOKBACK_DAYS
MaxLookbackDays == 365
\* HISTORICAL_BACKFILL_BUFFER_DAYS
BufferDays == 5
\* HISTORICAL_BACKFILL_SKIP_IF_RECENT_DAYS
SkipRecentDays == 2
\* days of the window of an integration that needs no extra request
WideWindowDays == 3650

\* ------------------------------------------------------------------------
\* Program constants
\* ------------------------------------------------------------------------
DISCOVERY_SESSION_TIMEOUT == 600

\* ------------------------------------------------------------------------
\* State
\* ------------------------------------------------------------------------
VARIABLES
  discovery_sessions, \* the process-global dict: token -> session record
  now,                \* time(), in seconds
  nDiscover,          \* integrations created so far (uuid4 tokens are fresh)
  closeCalls,         \* integration id -> number of close() calls received
  issued,             \* tokens handed out so far (history)
  resp,               \* the response of the request that ran last (history)
  sweep               \* what the sweep of the request that ran last saw (history)

sessVars == <<discovery_sessions, now, nDiscover, closeCalls, issued, resp, sweep>>

\* request threads of the one worker process, for the runs in which requests overlap
VARIABLES
  pc,                 \* thread -> where the thread is in its view
  loc,                \* thread -> the view's local variables
  inflight            \* calls on integrations that have not returned yet

concVars == <<pc, loc, inflight>>

\* the credential vault of one user
VARIABLES
  profile,            \* the user's UserProfile row (the encryption fields)
  accounts,           \* account -> FinancialAccount.encrypted_credentials
  nKeys,              \* user keys generated so far (each one is fresh)
  vresp,              \* the vault request that ran last: outcome and pre-state (history)
  ghost               \* the key and KEK of the migration and rotations (history)

vaultVars == <<profile, accounts, nKeys, vresp, ghost>>

\* migration requests that overlap
VARIABLES
  mpc,                \* request -> where it is in SetupEncryptionView.post
  mloc                \* request -> the view's local variables

migVars == <<mpc, mloc>>

\* the account rows the sync views work on
VARIABLES
  acct,               \* account -> status, last_sync_error, pending_auth_state
  sresp               \* the sync or credentials request that ran last (history)

syncVars == <<acct, sresp>>

\* one broker integration object and the broker it talks to
VARIABLES
  integ,              \* the fields of the integration instance
  bank,               \* the broker's side: open sessions, challenges, what it received
  held,               \* the caller still holds the instance in a SyncSession
  iresp               \* the call on the integration that ran last (history)

intVars == <<integ, bank, held, iresp>>

\* the snapshot and exchange rate tables and the day of the requests
VARIABLES
  today,              \* date.today(), as the number of the day in the year
  snapshots,          \* the AccountSnapshot rows
  rates,              \* the ExchangeRate rows
  feed,               \* the synced account's integration: variant and currency
  hresp               \* the request on these tables that ran last (history)

histVars == <<today, snapshots, rates, feed, hresp>>

vars == <<sessVars, concVars, vaultVars, migVars, syncVars, intVars, histVars>>

\* what a request on the session table leaves alone
SeqFrame == UNCHANGED <<concVars, vaultVars, migVars, syncVars, intVars, histVars>>
ConcFrame == UNCHANGED <<vaultVars, migVars, syncVars, intVars, histVars>>

Threads == 1..NThreads
NoToken == 0
Tokens == 1..MaxDiscover
Integrations == 1..MaxDiscover

\* ------------------------------------------------------------------------
\* Session table helpers
\* ------------------------------------------------------------------------
\* _discovery_sessions.pop(token, None): the table without token
delete_session(table, token) ==
  [t \in (DOMAIN table) \ {token} |-> table[t]]

\* _discovery_sessions[token] = data
set_session(table, token, data) ==
  [t \in (DOMAIN table) \cup {token} |-> IF t = token THEN data ELSE table[t]]

\* the expiry test of the sweep and of the completion view
IsExpired(session, t) == t - session.created_at > DISCOVERY_SESSION_TIMEOUT

\* the list of expired tokens the sweep builds
ExpiredTokens(table, t) == {tok \in DOMAIN table : IsExpired(table[tok], t)}

\* the table after the sweep: every expired token popped, whatever close() did
CleanupTableMutant(table, t, raising) ==
  LET expired == ExpiredTokens(table, t)
      stop == expired \cap raising
  IN  [tok \in (DOMAIN table) \ (expired \ stop) |-> table[tok]]
CleanupTable(table, t, raising) ==
  [tok \in (DOMAIN table) \ ExpiredTokens(table, t) |-> table[tok]]

\* close() calls after the sweep: one per popped session; an exception raised
\* by close() is swallowed (raising = the tokens whose close() raises)
CleanupCloses(table, t, raising, calls) ==
  LET closed == {table[tok].integration : tok \in ExpiredTokens(table, t)}
  IN  [i \in Integrations |-> IF i \in closed THEN calls[i] + 1 ELSE calls[i]]

NoResp == [op |-> "none", token |-> NoToken, pre |-> "none", status |-> 0,
           error |-> "", calls |-> {}]
NoSweep == [ran |-> FALSE, before |-> <<>>, at |-> 0, calls |-> <<>>, raised |-> {}]

\* ------------------------------------------------------------------------
\* Initial state: empty table at process start
\* ------------------------------------------------------------------------
NoLoc == [token |-> NoToken, integration |-> 0, todo |-> {}, dirty |-> FALSE]

ConcIdle ==
  /\ pc = [th \in Threads |-> "idle"]
  /\ loc = [th \in Threads |-> NoLoc]
  /\ inflight = {}

MigIdle ==
  /\ mpc = [th \in Threads |-> "idle"]
  /\ mloc = [th \in Threads |-> <<>>]

\* the vault of a user without accounts, for the runs that are about sessions
VaultIdle ==
  /\ profile = [encryption_migrated |-> FALSE, encrypted_user_key |-> <<>>,
                auth_hash |-> "", auth_salt |-> "", kek_salt |-> "",
                key_version |-> 1]
  /\ accounts = <<>>
  /\ nKeys = 0
  /\ vresp = [op |-> "none"]
  /\ ghost = [migrated |-> {}]

\* no sync request has run: every account row as it is created
NewRow == [status |-> "active", last_sync_error |-> "", pending_auth_state |-> FALSE]

SyncIdle ==
  /\ acct = [a \in 1..NAccounts |-> NewRow]
  /\ sresp = [op |-> "none", seq |-> 0, header |-> "none", migrated |-> FALSE,
              status |-> 0, runs |-> <<>>]

\* no integration has been constructed
NoInteg == [variant |-> "none", credentials |-> {}, session |-> FALSE, dialog |-> 0, authenticated |-> FALSE, tan |-> 0, pending |-> "none"]

\* no snapshot and no rate stored
HistIdle ==
  /\ today = 1
  /\ snapshots = {}
  /\ rates = {}
  /\ feed = [variant |-> "fints", currency |-> "EUR"]
  /\ hresp = [op |-> "none", seq |-> 0]

IntegIdle ==
  /\ integ = NoInteg
  /\ bank = [nDialogs |-> 0, open |-> {}, challenge |-> 0, received |-> <<>>, calls |-> 0]
  /\ held = FALSE
  /\ iresp = [op |-> "none", n |-> 0]

SessTable ==
  /\ discovery_sessions = <<>>
  /\ now = 0
  /\ nDiscover = 0
  /\ closeCalls = [i \in Integrations |-> 0]
  /\ issued = {}
  /\ resp = NoResp
  /\ sweep = NoSweep

SessInit == SessTable /\ ConcIdle /\ VaultIdle /\ MigIdle /\ SyncIdle /\ IntegIdle /\ HistIdle

\* ------------------------------------------------------------------------
\* The clock
\* ------------------------------------------------------------------------
Tick ==
  /\ now < MaxTicks * TickSeconds
  /\ now' = now + TickSeconds
  /\ sweep' = NoSweep
  /\ UNCHANGED <<discovery_sessions, nDiscover, closeCalls, issued, resp>>

\* ------------------------------------------------------------------------
\* BrokerDiscoverView.post, run to completion
\* ------------------------------------------------------------------------
\* a request without broker_code or for an unknown broker returns before the sweep
DiscoverRejected(given) ==
  /\ resp' = [op |-> "discover", token |-> NoToken, pre |-> "none",
              status |-> IF given THEN 404 ELSE 400,
              error |-> IF given THEN "Broker not found" ELSE "broker_code is required",
              calls |-> {}]
  /\ sweep' = NoSweep
  /\ UNCHANGED <<discovery_sessions, now, nDiscover, closeCalls, issued>>

\* auth: what get_broker_integration + authenticate() do ("unsupported": the
\* selection raises ValueError and no integration exists); acc: get_accounts();
\* cl: close() of the new integration; raising: swept tokens whose close() raises
Discover(auth, acc, cl, raising) ==
  LET id == nDiscover + 1
      swept == CleanupTable(discovery_sessions, now, raising)
      closes == CleanupCloses(discovery_sessions, now, raising, closeCalls)
      R(token, status, error, calls) ==
        [op |-> "discover", token |-> token, pre |-> "none", status |-> status,
         error |-> error, calls |-> calls]
  IN
  /\ auth # "unsupported" => nDiscover < MaxDiscover
  /\ nDiscover' = IF auth = "unsupported" THEN nDiscover ELSE id
  /\ sweep' = [ran |-> TRUE, before |-> discovery_sessions, at |-> now,
               calls |-> closeCalls, raised |-> raising]
  /\ UNCHANGED now
  /\ CASE auth = "unsupported" ->
            /\ discovery_sessions' = swept
            /\ closeCalls' = closes
            /\ issued' = issued
            /\ resp' = R(NoToken, 400, "Unsupported broker", {})
       [] auth = "needs_2fa" ->
            /\ discovery_sessions' =
                 set_session(swept, id, [integration |-> id, created_at |-> now])
            /\ closeCalls' = closes
            /\ issued' = issued \cup {id}
            /\ resp' = R(id, 200, "pending_auth", {"authenticate"})
       [] auth = "failed" ->
            /\ discovery_sessions' = swept
            /\ closeCalls' = closes
            /\ issued' = issued
            /\ resp' = R(NoToken, 400, "Authentication failed", {"authenticate"})
       [] auth = "raise" ->
            /\ discovery_sessions' = swept
            /\ closeCalls' = closes
            /\ issued' = issued
            /\ resp' = R(NoToken, 500, "Discovery failed", {"authenticate"})
       [] auth = "success" ->
            /\ discovery_sessions' = swept
            /\ issued' = issued
            /\ IF acc = "ok"
               THEN /\ closeCalls' = [closes EXCEPT ![id] = @ + 1]
                    /\ resp' = R(NoToken, IF cl = "ok" THEN 200 ELSE 500,
                                 IF cl = "ok" THEN "" ELSE "Discovery failed",
                                 {"authenticate", "get_accounts", "get_balance",
                                  "close"})
               ELSE /\ closeCalls' = closes
                    /\ resp' = R(NoToken, 500, "Discovery failed",
                                 {"authenticate", "get_accounts"})

\* ------------------------------------------------------------------------
\* BrokerDiscoverCompleteAuthView.post, run to completion
\* ------------------------------------------------------------------------
\* what the request's token refers to when the request arrives
TokenCase(table, token, t) ==
  IF token = NoToken THEN "missing"
  ELSE IF token \notin DOMAIN table THEN "absent"
  ELSE IF t - table[token].created_at > DISCOVERY_SESSION_TIMEOUT THEN "expired"
  ELSE "live"

\* the except-branch of the view: _delete_session, then close() in a try
CompleteAuthCleanup(table, token, calls) ==
  [table |-> delete_session(table, token),
   closes |-> [calls EXCEPT ![table[token].integration] = @ + 1]]

\* the expired branch of the view: close() in a try, then _delete_session
ExpireSessionMutant(table, token, calls) ==
  [table |-> table,
   closes |-> [calls EXCEPT ![table[token].integration] = @ + 1]]
ExpireSession(table, token, calls) ==
  [table |-> delete_session(table, token),
   closes |-> [calls EXCEPT ![table[token].integration] = @ + 1]]

\* the success branch: _delete_session, then integration.close() inside the
\* outer try, so a close() that raises runs the except-branch as well
CompleteAuthSuccess(table, token, calls, cl) ==
  LET first == [table |-> delete_session(table, token),
                closes |-> [calls EXCEPT ![table[token].integration] = @ + 1]]
  IN  IF cl = "ok"
      THEN [table |-> first.table, closes |-> first.closes, status |-> 200,
            error |-> ""]
      ELSE [table |-> delete_session(first.table, token),
            closes |-> [first.closes EXCEPT ![table[token].integration] = @ + 1],
            status |-> 500, error |-> "Authentication failed: exception"]

\* token: the request's session_token (NoToken when missing or empty);
\* c2fa: what complete_2fa() does; acc: get_accounts(); cl: the first close()
CompleteAuth(token, c2fa, acc, cl) ==
  LET pre == TokenCase(discovery_sessions, token, now)
      R(status, error, calls) ==
        [op |-> "complete", token |-> token, pre |-> pre, status |-> status,
         error |-> error, calls |-> calls]
  IN
  /\ UNCHANGED <<now, nDiscover, issued>>
  /\ sweep' = NoSweep
  /\ IF token = NoToken
     THEN /\ resp' = R(400, "session_token is required", {})
          /\ UNCHANGED <<discovery_sessions, closeCalls>>
     ELSE IF token \notin DOMAIN discovery_sessions
     THEN /\ resp' = R(400, "Session expired or invalid. Please restart discovery.", {})
          /\ UNCHANGED <<discovery_sessions, closeCalls>>
     ELSE IF IsExpired(discovery_sessions[token], now)
     THEN /\ closeCalls' = ExpireSession(discovery_sessions, token, closeCalls).closes
          /\ discovery_sessions' =
               ExpireSession(discovery_sessions, token, closeCalls).table
          /\ resp' = R(400, "Session expired. Please restart discovery.", {"close"})
     ELSE CASE c2fa = "pending" ->
                 /\ resp' = R(200, "pending_auth", {"complete_2fa"})
                 /\ UNCHANGED <<discovery_sessions, closeCalls>>
            [] c2fa = "failed" ->
                 /\ resp' = R(400, "Authentication failed", {"complete_2fa"})
                 /\ UNCHANGED <<discovery_sessions, closeCalls>>
            [] c2fa = "raise" ->
                 LET c == CompleteAuthCleanup(discovery_sessions, token, closeCalls)
                 IN  /\ discovery_sessions' = c.table
                     /\ closeCalls' = c.closes
                     /\ resp' = R(500, "Authentication failed: exception",
                                  {"complete_2fa", "close"})
            [] c2fa = "success" /\ acc = "raise" ->
                 LET c == CompleteAuthCleanup(discovery_sessions, token, closeCalls)
                 IN  /\ discovery_sessions' = c.table
                     /\ closeCalls' = c.closes
                     /\ resp' = R(500, "Authentication failed: exception",
                                  {"complete_2fa", "get_accounts", "close"})
            [] c2fa = "success" /\ acc = "ok" ->
                 LET c == CompleteAuthSuccess(discovery_sessions, token, closeCalls, cl)
                 IN  /\ discovery_sessions' = c.table
                     /\ closeCalls' = c.closes
                     /\ resp' = R(c.status, c.error,
                                  {"complete_2fa", "get_accounts", "get_balance",
                                   "close"})

SessNext ==
  \/ Tick /\ SeqFrame
  \/ \E given \in BOOLEAN : DiscoverRejected(given) /\ SeqFrame
  \/ \E auth \in {"unsupported", "success", "needs_2fa", "failed", "raise"} :
       \E acc \in IF auth = "success" THEN {"ok", "raise"} ELSE {"ok"} :
         \E cl \in IF auth = "success" /\ acc = "ok" THEN {"ok", "raise"} ELSE {"ok"} :
           \E raising \in SUBSET ExpiredTokens(discovery_sessions, now) :
             Discover(auth, acc, cl, raising) /\ SeqFrame
  \/ \E token \in Tokens \cup {NoToken} :
       \E c2fa \in IF TokenCase(discovery_sessions, token, now) = "live"
                   THEN {"success", "pending", "failed", "raise"} ELSE {"pending"} :
         \E acc \in IF c2fa = "success" THEN {"ok", "raise"} ELSE {"ok"} :
           \E cl \in IF c2fa = "success" /\ acc = "ok" THEN {"ok", "raise"} ELSE {"ok"} :
             CompleteAuth(token, c2fa, acc, cl) /\ SeqFrame

SpecSession == SessInit /\ [][SessNext]_vars

\* ------------------------------------------------------------------------
\* The same two views, step by step, for request threads that overlap.
\* A thread can be suspended wherever it waits for an integration's network
\* call, and between the statements that touch _discovery_sessions.
\* ------------------------------------------------------------------------
Begin(th, i, call) == inflight \cup {<<th, i, call>>}
Return(th) == {c \in inflight : c[1] # th}

\* a change of the dict's size is noticed by every thread iterating over it
Mutated(th, l) ==
  [o \in Threads |-> IF o # th /\ pc[o] = "d_scan"
                     THEN [l[o] EXCEPT !.dirty = TRUE] ELSE l[o]]

ConcResp(op, token, status, error) ==
  [op |-> op, token |-> token, pre |-> "none", status |-> status, error |-> error,
   calls |-> {}]

\* BrokerDiscoverCompleteAuthView.post up to its first call on the integration
CA_Start(th, token) ==
  /\ pc[th] = "idle"
  /\ UNCHANGED <<now, nDiscover, issued, sweep>>
  /\ IF token = NoToken
     THEN /\ resp' = ConcResp("complete", token, 400, "session_token is required")
          /\ UNCHANGED <<discovery_sessions, closeCalls, pc, loc, inflight>>
     ELSE IF token \notin DOMAIN discovery_sessions
     THEN /\ resp' = ConcResp("complete", token, 400,
                              "Session expired or invalid. Please restart discovery.")
          /\ UNCHANGED <<discovery_sessions, closeCalls, pc, loc, inflight>>
     ELSE LET i == discovery_sessions[token].integration
              expired == IsExpired(discovery_sessions[token], now)
          IN  /\ loc' = [loc EXCEPT ![th] = [NoLoc EXCEPT !.token = token,
                                                         !.integration = i]]
              /\ pc' = [pc EXCEPT ![th] = IF expired THEN "ca_expired_close"
                                          ELSE "ca_2fa"]
              /\ inflight' = Begin(th, i, IF expired THEN "close" ELSE "complete_2fa")
              /\ closeCalls' = IF expired THEN [closeCalls EXCEPT ![i] = @ + 1]
                               ELSE closeCalls
              /\ UNCHANGED <<discovery_sessions, resp>>

\* the expired branch after close() returned or raised: _delete_session, respond
CA_ExpiredClosed(th) ==
  /\ pc[th] = "ca_expired_close"
  /\ inflight' = Return(th)
  /\ discovery_sessions' = delete_session(discovery_sessions, loc[th].token)
  /\ loc' = [Mutated(th, loc) EXCEPT ![th] = NoLoc]
  /\ pc' = [pc EXCEPT ![th] = "idle"]
  /\ resp' = ConcResp("complete", loc[th].token, 400,
                      "Session expired. Please restart discovery.")
  /\ UNCHANGED <<now, nDiscover, closeCalls, issued, sweep>>

\* the except-branch: _delete_session, then close() is called
CA_Fail(th) ==
  /\ discovery_sessions' = delete_session(discovery_sessions, loc[th].token)
  /\ loc' = Mutated(th, loc)
  /\ closeCalls' = [closeCalls EXCEPT ![loc[th].integration] = @ + 1]
  /\ inflight' = Begin(th, loc[th].integration, "close") \ 
                   {c \in inflight : c[1] = th /\ c[3] # "close"}
  /\ pc' = [pc EXCEPT ![th] = "ca_err_close"]
  /\ UNCHANGED resp

\* complete_2fa() returns or raises
CA_2faReturned(th, c2fa) ==
  /\ pc[th] = "ca_2fa"
  /\ UNCHANGED <<now, nDiscover, issued, sweep>>
  /\ CASE c2fa = "pending" ->
            /\ inflight' = Return(th)
            /\ pc' = [pc EXCEPT ![th] = "idle"]
            /\ loc' = [loc EXCEPT ![th] = NoLoc]
            /\ resp' = ConcResp("complete", loc[th].token, 200, "pending_auth")
            /\ UNCHANGED <<discovery_sessions, closeCalls>>
       [] c2fa = "failed" ->
            /\ inflight' = Return(th)
            /\ pc' = [pc EXCEPT ![th] = "idle"]
            /\ loc' = [loc EXCEPT ![th] = NoLoc]
            /\ resp' = ConcResp("complete", loc[th].token, 400, "Authentication failed")
            /\ UNCHANGED <<discovery_sessions, closeCalls>>
       [] c2fa = "raise" -> CA_Fail(th)
       [] c2fa = "success" ->
            /\ inflight' = Begin(th, loc[th].integration, "get_accounts") \ 
                             {<<th, loc[th].integration, "complete_2fa">>}
            /\ pc' = [pc EXCEPT ![th] = "ca_accounts"]
            /\ UNCHANGED <<discovery_sessions, closeCalls, loc, resp>>

\* get_accounts() and the get_balance() loop return, or get_accounts() raises;
\* on return: _delete_session, then integration.close() is called
CA_AccountsReturned(th, acc) ==
  /\ pc[th] = "ca_accounts"
  /\ UNCHANGED <<now, nDiscover, issued, sweep>>
  /\ IF acc = "raise"
     THEN CA_Fail(th)
     ELSE /\ discovery_sessions' = delete_session(discovery_sessions, loc[th].token)
          /\ loc' = Mutated(th, loc)
          /\ closeCalls' = [closeCalls EXCEPT ![loc[th].integration] = @ + 1]
          /\ inflight' = Begin(th, loc[th].integration, "close") \ 
                           {<<th, loc[th].integration, "get_accounts">>}
          /\ pc' = [pc EXCEPT ![th] = "ca_ok_close"]
          /\ UNCHANGED resp

\* the close() of the success branch returns or raises
CA_Closed(th, cl) ==
  /\ pc[th] = "ca_ok_close"
  /\ UNCHANGED <<now, nDiscover, issued, sweep>>
  /\ IF cl = "raise"
     THEN CA_Fail(th)
     ELSE /\ inflight' = Return(th)
          /\ pc' = [pc EXCEPT ![th] = "idle"]
          /\ loc' = [loc EXCEPT ![th] = NoLoc]
          /\ resp' = ConcResp("complete", loc[th].token, 200, "")
          /\ UNCHANGED <<discovery_sessions, closeCalls>>

\* the close() of the except-branch returns or raises: respond 500
CA_ErrClosed(th) ==
  /\ pc[th] = "ca_err_close"
  /\ inflight' = Return(th)
  /\ pc' = [pc EXCEPT ![th] = "idle"]
  /\ resp' = ConcResp("complete", loc[th].token, 500, "Authentication failed: exception")
  /\ loc' = [loc EXCEPT ![th] = NoLoc]
  /\ UNCHANGED <<discovery_sessions, now, nDiscover, closeCalls, issued, sweep>>

\* BrokerDiscoverView.post up to the sweep: the list comprehension of
\* _cleanup_expired_sessions starts to iterate over the dict
D_Start(th) ==
  /\ pc[th] = "idle"
  /\ pc' = [pc EXCEPT ![th] = "d_scan"]
  /\ loc' = [loc EXCEPT ![th] = NoLoc]
  /\ UNCHANGED <<sessVars, inflight>>

\* the iteration ends: with the expired tokens, or with RuntimeError
\* (dictionary changed size during iteration), which nothing catches
D_Scanned(th) ==
  /\ pc[th] = "d_scan"
  /\ UNCHANGED <<discovery_sessions, now, nDiscover, closeCalls, issued, sweep,
                 inflight>>
  /\ IF loc[th].dirty
     THEN /\ pc' = [pc EXCEPT ![th] = "idle"]
          /\ loc' = [loc EXCEPT ![th] = NoLoc]
          /\ resp' = ConcResp("discover", NoToken, 500, "RuntimeError")
     ELSE /\ pc' = [pc EXCEPT ![th] = "d_pop"]
          /\ loc' = [loc EXCEPT ![th].todo = ExpiredTokens(discovery_sessions, now)]
          /\ UNCHANGED resp

\* one round of the sweep's loop: pop the next expired token and call close()
\* on its integration if the token was still there
D_Pop(th) ==
  /\ pc[th] = "d_pop"
  /\ loc[th].todo # {}
  /\ LET tok == CHOOSE t \in loc[th].todo : \A u \in loc[th].todo : t <= u
     IN  IF tok \in DOMAIN discovery_sessions
         THEN LET i == discovery_sessions[tok].integration
              IN  /\ discovery_sessions' = delete_session(discovery_sessions, tok)
                  /\ loc' = [Mutated(th, loc) EXCEPT ![th].todo = @ \ {tok},
                                                     ![th].token = tok,
                                                     ![th].integration = i]
                  /\ closeCalls' = [closeCalls EXCEPT ![i] = @ + 1]
                  /\ inflight' = Begin(th, i, "close")
                  /\ pc' = [pc EXCEPT ![th] = "d_close"]
         ELSE /\ loc' = [loc EXCEPT ![th].todo = @ \ {tok}]
              /\ UNCHANGED <<discovery_sessions, closeCalls, inflight, pc>>
  /\ UNCHANGED <<now, nDiscover, issued, resp, sweep>>

\* the sweep's close() returns or raises; either way the loop goes on
D_Closed(th) ==
  /\ pc[th] = "d_close"
  /\ inflight' = Return(th)
  /\ pc' = [pc EXCEPT ![th] = "d_pop"]
  /\ UNCHANGED <<sessVars, loc>>

\* after the sweep: select the integration, authenticate(), and on a challenge
\* store the session under a fresh token
D_Auth(th, auth) ==
  LET id == nDiscover + 1
  IN
  /\ pc[th] = "d_pop"
  /\ loc[th].todo = {}
  /\ auth # "unsupported" => nDiscover < ConcDiscover
  /\ nDiscover' = IF auth = "unsupported" THEN nDiscover ELSE id
  /\ pc' = [pc EXCEPT ![th] = "idle"]
  /\ UNCHANGED <<now, sweep, inflight>>
  /\ CASE auth = "needs_2fa" ->
            /\ discovery_sessions' =
                 set_session(discovery_sessions, id,
                             [integration |-> id, created_at |-> now])
            /\ loc' = [Mutated(th, loc) EXCEPT ![th] = NoLoc]
            /\ issued' = issued \cup {id}
            /\ closeCalls' = closeCalls
            /\ resp' = ConcResp("discover", id, 200, "pending_auth")
       [] auth = "success" ->
            /\ closeCalls' = [closeCalls EXCEPT ![id] = @ + 1]
            /\ loc' = [loc EXCEPT ![th] = NoLoc]
            /\ resp' = ConcResp("discover", NoToken, 200, "")
            /\ UNCHANGED <<discovery_sessions, issued>>
       [] auth \in {"unsupported", "failed", "raise"} ->
            /\ loc' = [loc EXCEPT ![th] = NoLoc]
            /\ resp' = ConcResp("discover", NoToken, IF auth = "raise" THEN 500 ELSE 400,
                                IF auth = "raise" THEN "Discovery failed"
                                ELSE "Authentication failed")
            /\ UNCHANGED <<discovery_sessions, issued, closeCalls>>

ConcNext ==
  \/ Tick /\ SeqFrame
  \/ \E th \in Threads, token \in Tokens \cup {NoToken} :
       CA_Start(th, token) /\ ConcFrame
  \/ \E th \in Threads : CA_ExpiredClosed(th) /\ ConcFrame
  \/ \E th \in Threads, c2fa \in {"success", "pending", "failed", "raise"} :
       CA_2faReturned(th, c2fa) /\ ConcFrame
  \/ \E th \in Threads, acc \in {"ok", "raise"} :
       CA_AccountsReturned(th, acc) /\ ConcFrame
  \/ \E th \in Threads, cl \in {"ok", "raise"} : CA_Closed(th, cl) /\ ConcFrame
  \/ \E th \in Threads : CA_ErrClosed(th) /\ ConcFrame
  \/ \E th \in Threads : D_Start(th) /\ ConcFrame
  \/ \E th \in Threads : D_Scanned(th) /\ ConcFrame
  \/ \E th \in Threads : D_Pop(th) /\ ConcFrame
  \/ \E th \in Threads : D_Closed(th) /\ ConcFrame
  \/ \E th \in Threads,
        auth \in {"unsupported", "success", "needs_2fa", "failed", "raise"} :
       D_Auth(th, auth) /\ ConcFrame

SpecSessionConc == SessInit /\ [][ConcNext]_vars

\* C2: requests on one token are serialized: no integration ever has two calls
\* in progress at once, and the session table is never changed while a request
\* iterates over it.
C2_SessionAccessSerialized ==
  /\ \A c, d \in inflight : c[2] = d[2] => c = d
  /\ \A th \in Threads : ~loc[th].dirty

\* ------------------------------------------------------------------------
\* The credential vault: Fernet, the two regimes, migration and rotation
\* ------------------------------------------------------------------------
Accounts == 1..NAccounts

\* keys are <<kind, number>>; a Fernet token is the pair of the key that made
\* it and the plaintext in it (its HMAC ties it to that key)
MasterKey == <<"master", 0>>
\* a master key the server no longer has: blobs under it cannot be decrypted
StaleKey == <<"stale", 0>>
NoBlob == <<>>

Ok(v) == [ok |-> TRUE, v |-> v]
Raise(e) == [ok |-> FALSE, v |-> <<e, 0>>]

\* Fernet(key): the constructor raises unless key is 32 url-safe base64 bytes
FernetKeyValid(key) == key[1] \in {"master", "stale", "kek", "user"}

\* Fernet(key).encrypt(data)
FernetEncrypt(key, data) ==
  IF FernetKeyValid(key) THEN Ok([k |-> key, p |-> data]) ELSE Raise("ValueError")

\* Fernet(key).decrypt(token): InvalidToken unless the token was made with key
FernetDecrypt(key, token) ==
  IF ~FernetKeyValid(key) THEN Raise("ValueError")
  ELSE IF token = NoBlob THEN Raise("TypeError")
  ELSE IF token.k = key THEN Ok(token.p)
  ELSE Raise("InvalidToken")

\* core.user_encryption
generate_user_key(n) == <<"user", n>>

encrypt_user_key(user_key, kek) == FernetEncrypt(kek, user_key)

decrypt_user_keyMutant(encrypted_user_key, kek) ==
  IF encrypted_user_key = NoBlob THEN Raise("TypeError")
  ELSE Ok(encrypted_user_key.p)
decrypt_user_key(encrypted_user_key, kek) == FernetDecrypt(kek, encrypted_user_key)

encrypt_credentials(credentials, user_key) == FernetEncrypt(user_key, credentials)

decrypt_credentials(encrypted_creds, user_key) ==
  IF encrypted_creds = NoBlob THEN Ok(<<"creds", 0>>)
  ELSE FernetDecrypt(user_key, encrypted_creds)

\* core.encryption: the legacy regime under the server's master key
legacy_encrypt_credentials(data) == FernetEncrypt(MasterKey, data)

legacy_decrypt_credentials(encrypted_data) ==
  IF encrypted_data = NoBlob THEN Ok(<<"creds", 0>>)
  ELSE FernetDecrypt(MasterKey, encrypted_data)

\* the KEK bytes a request can carry, after base64.b64decode: the 32 raw bytes
\* of KEK number id, their 44-byte url-safe base64 form, 44 bytes that are no
\* base64, bytes of another length, a value b64decode rejects, or nothing
NoKek == [form |-> "missing", id |-> 0]
GoodKeks ==
  {[form |-> "raw32", id |-> 1], [form |-> "raw32", id |-> 2], [form |-> "b64", id |-> 1]}
BadKeks ==
  {[form |-> "junk44", id |-> 0], [form |-> "short", id |-> 0],
   [form |-> "undecodable", id |-> 0], NoKek}
KekInputs == GoodKeks \cup BadKeks

pad_kek_for_fernet(kek_bytes) ==
  CASE kek_bytes.form = "b64" -> Ok(<<"kek", kek_bytes.id>>)
    [] kek_bytes.form = "junk44" -> Ok(<<"junk", 0>>)
    [] kek_bytes.form = "raw32" -> Ok(<<"kek", kek_bytes.id>>)
    [] OTHER -> Raise("ValueError")

\* request.data.get(...) followed by base64.b64decode and pad_kek_for_fernet,
\* as both views do it inside their try
DecodeKek(kek) ==
  IF kek.form = "undecodable" THEN Raise("binascii.Error")
  ELSE pad_kek_for_fernet(kek)

\* KEKAuthenticationMixin.get_kek: None without a header or with an undecodable one
get_kek(header) ==
  IF header.form \in {"missing", "undecodable"} THEN NoKek ELSE header

PermissionDenied(msg) == [ok |-> FALSE, v |-> <<"PermissionDenied", 0>>, msg |-> msg]

\* KEKAuthenticationMixin.decrypt_account_credentials
decrypt_account_credentials(p, header, blob) ==
  IF p.encryption_migrated
  THEN LET kek == get_kek(header)
       IN  IF kek = NoKek
           THEN PermissionDenied("KEK required for encrypted operations")
           ELSE IF p.encrypted_user_key = NoBlob
           THEN PermissionDenied("User encryption not set up")
           ELSE LET padded == pad_kek_for_fernet(kek)
                    user_key == IF padded.ok
                                THEN decrypt_user_key(p.encrypted_user_key, padded.v)
                                ELSE padded
                    creds == IF user_key.ok
                             THEN decrypt_credentials(blob, user_key.v)
                             ELSE user_key
                IN  IF creds.ok THEN creds
                    ELSE PermissionDenied("Failed to decrypt credentials")
  ELSE legacy_decrypt_credentials(blob)

\* the Fernet key a KEK input stands for, if it stands for one
KekKey(kek) == IF kek.form \in {"raw32", "b64"} THEN <<"kek", kek.id>> ELSE <<"none", 0>>

\* ------------------------------------------------------------------------
\* Initial state of the vault: a user who has not migrated; each account has
\* no credentials, credentials under the master key, or a blob that the
\* master key does not open
\* ------------------------------------------------------------------------
Credentials(a) == <<"creds", a>>

VaultInit ==
  /\ profile = [encryption_migrated |-> FALSE, encrypted_user_key |-> NoBlob,
                auth_hash |-> "", auth_salt |-> "", kek_salt |-> "",
                key_version |-> 1]
  /\ accounts \in [Accounts -> {NoBlob} \cup
                     {[k |-> key, p |-> <<"creds", a>>] :
                        key \in {MasterKey, StaleKey}, a \in Accounts}]
  /\ \A a \in Accounts : accounts[a] # NoBlob => accounts[a].p = Credentials(a)
  /\ nKeys = 0
  /\ vresp = [op |-> "none"]
  /\ ghost = [migrated |-> {}]

\* ------------------------------------------------------------------------
\* SetupEncryptionView.post, run to completion
\* ------------------------------------------------------------------------
\* the loop over the user's accounts, from account a on: table is what the
\* queryset returned, done the rows as they are after the saves so far
RECURSIVE MigrateAccountsMutant(_, _, _, _)
MigrateAccountsMutant(a, table, user_key, acc) ==
  IF a > NAccounts THEN acc
  ELSE IF table[a] = NoBlob
  THEN MigrateAccountsMutant(a + 1, table, user_key, acc)
  ELSE LET credentials == legacy_decrypt_credentials(table[a])
           blob == IF credentials.ok
                   THEN encrypt_credentials(credentials.v, user_key)
                   ELSE credentials
       IN  IF blob.ok
           THEN MigrateAccountsMutant(a + 1, table, user_key,
                  [acc EXCEPT !.rows[a] = blob.v, !.migrated = @ + 1])
           ELSE [acc EXCEPT !.failed = @ \cup {a}]

RECURSIVE MigrateAccounts(_, _, _, _)
MigrateAccounts(a, table, user_key, acc) ==
  IF a > NAccounts THEN acc
  ELSE IF table[a] = NoBlob
  THEN MigrateAccounts(a + 1, table, user_key, acc)
  ELSE LET credentials == legacy_decrypt_credentials(table[a])
           blob == IF credentials.ok
                   THEN encrypt_credentials(credentials.v, user_key)
                   ELSE credentials
       IN  IF blob.ok
           THEN MigrateAccounts(a + 1, table, user_key,
                  [acc EXCEPT !.rows[a] = blob.v, !.migrated = @ + 1])
           ELSE MigrateAccounts(a + 1, table, user_key,
                  [acc EXCEPT !.failed = @ \cup {a}])

\* the guard at the top of the view
AlreadyMigratedMutant(p) == FALSE
AlreadyMigrated(p) == p.encryption_migrated

VResp(op, status, error) ==
  [op |-> op, status |-> status, error |-> error, before |-> profile,
   rows |-> accounts]

SetupEncryption(kek_in, auth_hash, auth_salt, kek_salt) ==
  LET kek == DecodeKek(kek_in)
      user_key == generate_user_key(nKeys + 1)
      encrypted_user_key == IF kek.ok THEN encrypt_user_key(user_key, kek.v) ELSE kek
      done == MigrateAccounts(1, accounts, user_key,
                              [rows |-> accounts, migrated |-> 0, failed |-> {}])
      wellFormed == /\ kek_in.form \in {"raw32", "b64"}
                    /\ auth_hash # "" /\ auth_salt # "" /\ kek_salt # ""
      R(status, error) ==
        [op |-> "setup", status |-> status, error |-> error, before |-> profile,
         rows |-> accounts, wellFormed |-> wellFormed,
         accounts_migrated |-> 0, accounts_failed |-> {}]
      Rejected(status, error) ==
        /\ vresp' = R(status, error)
        /\ UNCHANGED <<profile, accounts, nKeys, ghost>>
  IN
  IF AlreadyMigrated(profile)
  THEN Rejected(400, "User already migrated")
  ELSE IF kek_in = NoKek \/ auth_hash = "" \/ auth_salt = "" \/ kek_salt = ""
  THEN Rejected(400, "kek, auth_hash, auth_salt, and kek_salt required")
  ELSE IF ~kek.ok
  THEN Rejected(400, "Invalid KEK format")
  ELSE IF ~encrypted_user_key.ok
  THEN Rejected(500, "ValueError")
  ELSE /\ nKeys' = nKeys + 1
       /\ accounts' = done.rows
       /\ profile' = [profile EXCEPT !.encrypted_user_key = encrypted_user_key.v,
                                     !.auth_hash = auth_hash,
                                     !.auth_salt = auth_salt,
                                     !.kek_salt = kek_salt,
                                     !.encryption_migrated = TRUE]
       /\ vresp' = [R(200, "") EXCEPT !.accounts_migrated = done.migrated,
                                      !.accounts_failed = done.failed]
       /\ ghost' = [migrated |-> {a \in Accounts : done.rows[a] # accounts[a]},
                    user_key |-> user_key, kek |-> kek_in]

\* ------------------------------------------------------------------------
\* KEKPasswordChangeView.post, run to completion
\* ------------------------------------------------------------------------
\* the two lines of the view's try: unwrap with the old KEK, wrap with the new
RewrapUserKeyMutant(encrypted_user_key, old_kek, new_kek) ==
  LET user_key == decrypt_user_key(encrypted_user_key, old_kek)
  IN  IF user_key.ok THEN encrypt_user_key(user_key.v, old_kek) ELSE user_key
RewrapUserKey(encrypted_user_key, old_kek, new_kek) ==
  LET user_key == decrypt_user_key(encrypted_user_key, old_kek)
  IN  IF user_key.ok THEN encrypt_user_key(user_key.v, new_kek) ELSE user_key

\* profile.key_version += 1
NextKeyVersionMutant(v) == v
NextKeyVersion(v) == v + 1

KEKPasswordChange(old_auth_hash, new_auth_hash, old_kek_in, new_kek_in, new_auth_salt, new_kek_salt) ==
  LET old_kek == DecodeKek(old_kek_in)
      new_kek == DecodeKek(new_kek_in)
      rewrapped == IF old_kek.ok /\ new_kek.ok
                   THEN RewrapUserKey(profile.encrypted_user_key, old_kek.v, new_kek.v)
                   ELSE Raise("ValueError")
      R(status, error) ==
        [op |-> "rotate", status |-> status, error |-> error, before |-> profile,
         rows |-> accounts, old_key |-> KekKey(old_kek_in)]
      Rejected(status, error) ==
        /\ vresp' = R(status, error)
        /\ UNCHANGED <<profile, accounts, nKeys, ghost>>
  IN
     IF ~profile.encryption_migrated
     THEN Rejected(400, "User not migrated to KEK encryption")
     ELSE IF \/ old_auth_hash = "" \/ new_auth_hash = ""
             \/ old_kek_in = NoKek \/ new_kek_in = NoKek
             \/ new_auth_salt = "" \/ new_kek_salt = ""
     THEN Rejected(400, "All fields required")
     ELSE IF old_auth_hash # profile.auth_hash
     THEN Rejected(400, "Invalid current password")
     ELSE IF ~old_kek.ok \/ ~new_kek.ok
     THEN Rejected(400, "Invalid KEK format")
     ELSE IF ~rewrapped.ok
     THEN Rejected(400, "Failed to re-encrypt user key")
     ELSE /\ profile.key_version <= MaxRotations
          /\ profile' = [profile EXCEPT !.auth_hash = new_auth_hash,
                                        !.auth_salt = new_auth_salt,
                                        !.kek_salt = new_kek_salt,
                                        !.encrypted_user_key = rewrapped.v,
                                        !.key_version = NextKeyVersion(@)]
          /\ vresp' = R(200, "")
          /\ ghost' = [ghost EXCEPT !.kek = new_kek_in]
          /\ UNCHANGED <<accounts, nKeys>>

\* ------------------------------------------------------------------------
\* A request that reads an account's stored credentials
\* ------------------------------------------------------------------------
ReadCredentials(header, a) ==
  /\ vresp' = [op |-> "decrypt", before |-> profile, rows |-> accounts,
               key |-> KekKey(header), account |-> a,
               result |-> decrypt_account_credentials(profile, header, accounts[a])]
  /\ UNCHANGED <<profile, accounts, nKeys, ghost>>

\* what the client derives from one password: auth hash and the two salts
Derived(i) ==
  [auth_hash |-> <<"h1", "h2">>[i], auth_salt |-> <<"s1", "s2">>[i],
   kek_salt |-> <<"t1", "t2">>[i]]
FullBundles == {Derived(1), Derived(2)}
\* requests with one of the fields missing
PartBundles ==
  {[Derived(1) EXCEPT !.auth_hash = ""], [Derived(1) EXCEPT !.auth_salt = ""],
   [Derived(1) EXCEPT !.kek_salt = ""]}

SetupRequests ==
  {[kek |-> k, new |-> b] : k \in KekInputs, b \in FullBundles} \cup
  {[kek |-> k, new |-> b] : k \in {[form |-> "raw32", id |-> 1]}, b \in PartBundles}

RotationRequests ==
  {[old_auth_hash |-> h, old_kek |-> o, new_kek |-> n, new |-> b] :
     h \in {"h1", "h2"}, o \in GoodKeks, n \in GoodKeks, b \in FullBundles} \cup
  {[old_auth_hash |-> h, old_kek |-> o, new_kek |-> n, new |-> b] :
     h \in {"h1", "h2"}, o \in BadKeks, n \in {[form |-> "raw32", id |-> 2]},
     b \in {Derived(2)}} \cup
  {[old_auth_hash |-> h, old_kek |-> o, new_kek |-> n, new |-> b] :
     h \in {"h1", "h2"}, o \in GoodKeks, n \in BadKeks, b \in {Derived(2)}} \cup
  {[old_auth_hash |-> h, old_kek |-> o, new_kek |-> n, new |-> b] :
     h \in {"", "h1", "h2"}, o \in {[form |-> "raw32", id |-> 1]},
     n \in {[form |-> "raw32", id |-> 2]}, b \in PartBundles \cup {Derived(2)}}

VaultFrame == UNCHANGED <<sessVars, concVars, migVars, syncVars, intVars, histVars>>

VaultNext ==
  \/ \E r \in SetupRequests :
       SetupEncryption(r.kek, r.new.auth_hash, r.new.auth_salt, r.new.kek_salt)
         /\ VaultFrame
  \/ \E r \in RotationRequests :
       KEKPasswordChange(r.old_auth_hash, r.new.auth_hash, r.old_kek, r.new_kek,
                         r.new.auth_salt, r.new.kek_salt)
         /\ VaultFrame
  \/ \E header \in KekInputs, a \in Accounts : ReadCredentials(header, a) /\ VaultFrame

VaultSpecInit == SessTable /\ ConcIdle /\ VaultInit /\ MigIdle /\ SyncIdle /\ IntegIdle /\ HistIdle

SpecVault == VaultSpecInit /\ [][VaultNext]_vars

\* ------------------------------------------------------------------------
\* SetupEncryptionView.post step by step, for migration requests of one user
\* that overlap: every save() is its own database transaction
\* ------------------------------------------------------------------------
MigResp(status, error) == [op |-> "setup", status |-> status, error |-> error]

\* the view up to the loop: load the profile, check the flag and the fields,
\* decode the KEK, generate the user key and wrap it
M_Start(th, kek_in, new) ==
  LET kek == DecodeKek(kek_in)
      user_key == generate_user_key(nKeys + 1)
      encrypted_user_key == IF kek.ok THEN encrypt_user_key(user_key, kek.v) ELSE kek
      Rejected(status, error) ==
        /\ vresp' = MigResp(status, error)
        /\ UNCHANGED <<nKeys, mpc, mloc>>
  IN
  /\ mpc[th] = "idle"
  /\ UNCHANGED <<profile, accounts, ghost>>
  /\ IF AlreadyMigrated(profile)
     THEN Rejected(400, "User already migrated")
     ELSE IF \/ kek_in = NoKek \/ new.auth_hash = "" \/ new.auth_salt = ""
             \/ new.kek_salt = ""
     THEN Rejected(400, "kek, auth_hash, auth_salt, and kek_salt required")
     ELSE IF ~kek.ok
     THEN Rejected(400, "Invalid KEK format")
     ELSE IF ~encrypted_user_key.ok
     THEN Rejected(500, "ValueError")
     ELSE /\ nKeys < MaxKeys
          /\ nKeys' = nKeys + 1
          /\ mpc' = [mpc EXCEPT ![th] = "m_fetch"]
          /\ mloc' = [mloc EXCEPT ![th] =
                        [profile |-> profile, user_key |-> user_key,
                         encrypted_user_key |-> encrypted_user_key.v, new |-> new,
                         rows |-> <<>>, next |-> 1, accounts_migrated |-> 0,
                         accounts_failed |-> {}]]
          /\ UNCHANGED vresp

\* the for statement runs the query: the rows as they are stored now
M_Fetch(th) ==
  /\ mpc[th] = "m_fetch"
  /\ mloc' = [mloc EXCEPT ![th].rows = accounts]
  /\ mpc' = [mpc EXCEPT ![th] = "m_loop"]
  /\ UNCHANGED vaultVars

\* one round of the loop: decrypt the fetched blob with the master key,
\* encrypt it with the user key, save the row
M_Account(th) ==
  LET l == mloc[th]
      a == l.next
      credentials == legacy_decrypt_credentials(l.rows[a])
      blob == IF credentials.ok THEN encrypt_credentials(credentials.v, l.user_key)
              ELSE credentials
  IN
  /\ mpc[th] = "m_loop"
  /\ a <= NAccounts
  /\ IF l.rows[a] = NoBlob
     THEN /\ mloc' = [mloc EXCEPT ![th].next = a + 1]
          /\ UNCHANGED accounts
     ELSE IF blob.ok
     THEN /\ accounts' = [accounts EXCEPT ![a] = blob.v]
          /\ mloc' = [mloc EXCEPT ![th].next = a + 1,
                                  ![th].accounts_migrated = @ + 1]
     ELSE /\ mloc' = [mloc EXCEPT ![th].next = a + 1,
                                  ![th].accounts_failed = @ \cup {a}]
          /\ UNCHANGED accounts
  /\ UNCHANGED <<profile, nKeys, vresp, ghost, mpc>>

\* after the loop: profile.save() writes the request's copy of the profile
\* with the wrapped key and the flag, or fails with a database error that
\* nothing catches
M_SaveProfile(th, saved) ==
  LET l == mloc[th]
  IN
  /\ mpc[th] = "m_loop"
  /\ l.next > NAccounts
  /\ mpc' = [mpc EXCEPT ![th] = "idle"]
  /\ mloc' = [mloc EXCEPT ![th] = <<>>]
  /\ UNCHANGED <<accounts, nKeys, ghost>>
  /\ IF saved
     THEN /\ profile' = [l.profile EXCEPT
                           !.encrypted_user_key = l.encrypted_user_key,
                           !.auth_hash = l.new.auth_hash,
                           !.auth_salt = l.new.auth_salt,
                           !.kek_salt = l.new.kek_salt,
                           !.encryption_migrated = TRUE]
          /\ vresp' = MigResp(200, "")
     ELSE /\ vresp' = MigResp(500, "DatabaseError")
          /\ UNCHANGED profile

MigFrame == UNCHANGED <<sessVars, concVars, syncVars, intVars, histVars>>

MigNext ==
  \/ \E th \in Threads, kek \in KekInputs, new \in FullBundles \cup PartBundles :
       M_Start(th, kek, new) /\ MigFrame
  \/ \E th \in Threads : M_Fetch(th) /\ MigFrame
  \/ \E th \in Threads : M_Account(th) /\ MigFrame
  \/ \E th \in Threads, saved \in BOOLEAN : M_SaveProfile(th, saved) /\ MigFrame

SpecMigrate == VaultSpecInit /\ [][MigNext]_vars

\* C5: once no migration request is running, every account blob that is under
\* a user key is under the user key whose wrapped form the profile stores.
C5_MigrationAtomic ==
  (\A th \in Threads : mpc[th] = "idle") =>
    \A a \in Accounts :
      (accounts[a] # NoBlob /\ accounts[a].k[1] = "user") =>
        /\ profile.encrypted_user_key # NoBlob
        /\ profile.encrypted_user_key.p = accounts[a].k

\* ------------------------------------------------------------------------
\* Properties of the session table, requests run one at a time
\* ------------------------------------------------------------------------
\* C1: every session created by discovery is closed exactly once: close() is
\* never called a second time on its integration, and a session that has left
\* the table has had its integration closed once.
C1_ClosedExactlyOnce ==
  \A tok \in issued :
    /\ closeCalls[tok] <= 1
    /\ tok \notin DOMAIN discovery_sessions => closeCalls[tok] = 1

\* C3: a sweep removes every session older than 600 s and calls close() on its
\* integration exactly once, whether or not a close() raises; every younger
\* session stays in the table, unchanged and unclosed.
C3_SweepRemovesExpired ==
  sweep.ran =>
    \A tok \in DOMAIN sweep.before :
      LET s == sweep.before[tok]
      IN  IF sweep.at - s.created_at > 600
          THEN /\ tok \notin DOMAIN discovery_sessions
               /\ closeCalls[s.integration] = sweep.calls[s.integration] + 1
               /\ closeCalls[s.integration] = 1
          ELSE /\ tok \in DOMAIN discovery_sessions
               /\ discovery_sessions[tok] = s
               /\ closeCalls[s.integration] = 0

\* C3 witness: a sweep met two expired sessions, the close() of one of them
\* raised, and a younger session stayed.
C3_Witness ==
  /\ sweep.ran
  /\ \E t1, t2, t3 \in DOMAIN sweep.before :
       /\ t1 # t2
       /\ sweep.at - sweep.before[t1].created_at > 600
       /\ sweep.at - sweep.before[t2].created_at > 600
       /\ t1 \in sweep.raised /\ t2 \notin sweep.raised
       /\ sweep.at - sweep.before[t3].created_at <= 600
       /\ t1 \notin DOMAIN discovery_sessions
       /\ t2 \notin DOMAIN discovery_sessions
       /\ t3 \in DOMAIN discovery_sessions

RestartRequired(error) ==
  error \in {"Session expired or invalid. Please restart discovery.",
             "Session expired. Please restart discovery."}

IntegrationWork == {"complete_2fa", "get_accounts", "get_balance"}

\* C4 as stated: a completion request whose token is missing, unknown or
\* expired gets a restart-required error and calls neither complete_2fa nor
\* get_accounts nor get_balance; the expired session leaves the table.
C4_RestartRequiredAsStated ==
  (resp.op = "complete" /\ resp.pre \in {"missing", "absent", "expired"}) =>
    /\ resp.status = 400
    /\ RestartRequired(resp.error)
    /\ resp.calls \cap IntegrationWork = {}
    /\ resp.pre = "expired" => resp.token \notin DOMAIN discovery_sessions

\* C4 amended: as C4, except that a request without a token is answered with
\* the error "session_token is required" instead of a restart-required error.
C4_InvalidTokenRejected ==
  (resp.op = "complete" /\ resp.pre \in {"missing", "absent", "expired"}) =>
    /\ resp.status = 400
    /\ IF resp.pre = "missing"
       THEN resp.error = "session_token is required"
       ELSE RestartRequired(resp.error)
    /\ resp.calls \cap IntegrationWork = {}
    /\ resp.pre = "expired" => resp.token \notin DOMAIN discovery_sessions

\* C4 witness: an expired session was presented, rejected and removed.
C4_Witness ==
  /\ resp.op = "complete" /\ resp.pre = "expired"
  /\ resp.token \in issued
  /\ resp.token \notin DOMAIN discovery_sessions
  /\ closeCalls[resp.token] = 1

\* ------------------------------------------------------------------------
\* Properties of the vault, requests run one at a time
\* ------------------------------------------------------------------------
\* the migration request that ran last met every precondition of migration
MigrationRan ==
  /\ vresp.op = "setup"
  /\ ~vresp.before.encryption_migrated
  /\ vresp.wellFormed

\* C6: when an account's blob cannot be decrypted during migration, every
\* account whose blob the master key opens is still stored re-encrypted under
\* the new user key, the failing accounts are reported, and the request
\* succeeds instead of raising.
C6_PartialFailureDoesNotBlock ==
  MigrationRan =>
    /\ vresp.status = 200
    /\ profile.encryption_migrated
    /\ profile.encrypted_user_key # NoBlob
    /\ \A a \in Accounts :
         LET old == vresp.rows[a]
         IN  IF old = NoBlob
             THEN accounts[a] = NoBlob /\ a \notin vresp.accounts_failed
             ELSE IF old.k = MasterKey
             THEN /\ accounts[a] = [k |-> profile.encrypted_user_key.p, p |-> old.p]
                  /\ a \notin vresp.accounts_failed
             ELSE /\ accounts[a] = old
                  /\ a \in vresp.accounts_failed
    /\ vresp.accounts_migrated =
         Cardinality({a \in Accounts : vresp.rows[a] # NoBlob
                                         /\ vresp.rows[a].k = MasterKey})

\* C6 witness: a migration in which the first account failed and a later one
\* was re-encrypted.
C6_Witness ==
  /\ MigrationRan /\ vresp.status = 200
  /\ \E a, b \in Accounts :
       /\ a < b
       /\ a \in vresp.accounts_failed
       /\ accounts[b] # NoBlob /\ accounts[b].k[1] = "user"

\* C7: migration of a user whose mode flag is set is rejected and changes
\* neither the profile nor any account's blob.
C7_SecondMigrationRejected ==
  (vresp.op = "setup" /\ vresp.before.encryption_migrated) =>
    /\ vresp.status = 400
    /\ vresp.error = "User already migrated"
    /\ profile = vresp.before
    /\ accounts = vresp.rows

\* C7 witness: a well-formed migration request was rejected for a migrated
\* user who has a re-encrypted account.
C7_Witness ==
  /\ vresp.op = "setup" /\ vresp.before.encryption_migrated /\ vresp.wellFormed
  /\ vresp.status = 400
  /\ \E a \in Accounts : accounts[a] # NoBlob /\ accounts[a].k[1] = "user"

\* C8: with a KEK other than the one that wrapped the stored user key, reading
\* credentials of a migrated user ends in PermissionDenied and returns nothing,
\* and a rotation is rejected and leaves the profile as it was.
C8_WrongKekNeverUnwraps ==
  /\ (/\ vresp.op = "decrypt"
      /\ vresp.before.encryption_migrated
      /\ vresp.key # vresp.before.encrypted_user_key.k) =>
        /\ ~vresp.result.ok
        /\ vresp.result.v[1] = "PermissionDenied"
  /\ (/\ vresp.op = "rotate"
      /\ vresp.before.encryption_migrated
      /\ vresp.old_key # vresp.before.encrypted_user_key.k) =>
        /\ vresp.status = 400
        /\ profile = vresp.before
        /\ accounts = vresp.rows

\* C8 witness: a rotation with the right auth hash and a well-formed but wrong
\* old KEK was rejected.
C8_Witness ==
  /\ vresp.op = "rotate" /\ vresp.before.encryption_migrated
  /\ vresp.old_key[1] = "kek"
  /\ vresp.old_key # vresp.before.encrypted_user_key.k
  /\ vresp.error = "Failed to re-encrypt user key"

\* C9: after migration and any rotations, accepted or rejected, the KEK of the
\* latest accepted rotation unwraps the stored key to the user key generated
\* at migration, and every account re-encrypted at migration still decrypts
\* to its original credentials with it.
C9_RotationPreservesUserKey ==
  profile.encryption_migrated =>
    LET kek == pad_kek_for_fernet(ghost.kek)
        user_key == decrypt_user_key(profile.encrypted_user_key, kek.v)
    IN  /\ kek.ok
        /\ user_key.ok
        /\ user_key.v = ghost.user_key
        /\ \A a \in ghost.migrated :
             LET creds == decrypt_account_credentials(profile, ghost.kek, accounts[a])
             IN  creds.ok /\ creds.v = Credentials(a)

\* C9 witness: two accepted rotations, then a rejected one, with a
\* re-encrypted account.
C9_Witness ==
  /\ profile.encryption_migrated
  /\ profile.key_version = 3
  /\ vresp.op = "rotate" /\ vresp.status = 400
  /\ ghost.migrated # {}

\* C10: an accepted rotation changes the wrapped key, auth hash, salts and
\* key version only, the version by exactly one; a rejected rotation changes
\* nothing; and no request ever lowers the key version.
C10_RotationFrame ==
  [][/\ profile'.key_version >= profile.key_version
     /\ vresp'.op = "rotate" =>
          /\ accounts' = accounts
          /\ profile'.encryption_migrated = profile.encryption_migrated
          /\ IF vresp'.status = 200
             THEN profile'.key_version = profile.key_version + 1
             ELSE profile' = profile]_vars

\* C10 witness: an accepted rotation raised the version of a user with a
\* stored credential blob.
C10_Witness ==
  /\ vresp.op = "rotate" /\ vresp.status = 200
  /\ profile.key_version = vresp.before.key_version + 1
  /\ profile.encrypted_user_key # vresp.before.encrypted_user_key
  /\ \E a \in Accounts : accounts[a] # NoBlob

\* ------------------------------------------------------------------------
\* The account sync views (portfolio/views.py), each request run to
\* completion. The views take the credentials with core.encryption, the
\* master-key functions, whatever the user's encryption mode is.
\* ------------------------------------------------------------------------
\* what the broker and the database do during the sync of one account:
\*   sel   get_broker_integration: "ok", or "unsupported" (it raises ValueError)
\*   auth  authenticate(): "success", "needs_2fa", "failed", or "raise"
\*   c2fa  complete_2fa(): "success", "failed", or "raise" ("none": not called)
\*   fail  the step after authentication that raises, "none" if none does
\*   exc   the type of the exception that authenticate() or the step raises
\*   close close(): "ok", or "raise" each time it is called
SyncSteps == {"get_balance", "persist", "convert"}
ExcTypes == {"ValueError", "RuntimeError"}

Script(sel, auth, c2fa, fail, exc, close) ==
  [sel |-> sel, auth |-> auth, c2fa |-> c2fa, fail |-> fail, exc |-> exc,
   close |-> close]

AfterAuthScripts(auth, c2fa) ==
  {Script("ok", auth, c2fa, f, t, c) :
     f \in SyncSteps, t \in ExcTypes, c \in {"ok", "raise"}} \cup
  {Script("ok", auth, c2fa, "none", "none", c) : c \in {"ok", "raise"}}

SyncScripts ==
  {Script("unsupported", "none", "none", "none", "ValueError", "ok")} \cup
  {Script("ok", a, "none", "none", "none", c) :
     a \in {"needs_2fa", "failed"}, c \in {"ok", "raise"}} \cup
  {Script("ok", "raise", "none", "none", t, "ok") : t \in ExcTypes} \cup
  AfterAuthScripts("success", "none")

\* the outcomes drawn for each account of a sync-all request
SyncAllScripts ==
  {Script("unsupported", "none", "none", "none", "ValueError", "ok"),
   Script("ok", "raise", "none", "none", "RuntimeError", "ok"),
   Script("ok", "needs_2fa", "none", "none", "none", "ok"),
   Script("ok", "failed", "none", "none", "none", "ok"),
   Script("ok", "failed", "none", "none", "none", "raise"),
   Script("ok", "success", "none", "get_balance", "RuntimeError", "ok"),
   Script("ok", "success", "none", "none", "none", "ok"),
   Script("ok", "success", "none", "none", "none", "raise")}

\* AccountAuthView calls authenticate() again and, on a challenge, complete_2fa()
AuthScripts ==
  {Script("unsupported", "none", "none", "none", "ValueError", "ok")} \cup
  {Script("ok", "raise", "none", "none", t, "ok") : t \in ExcTypes} \cup
  {Script("ok", "needs_2fa", "failed", "none", "none", "ok")} \cup
  {Script("ok", "needs_2fa", "raise", "none", t, "ok") : t \in ExcTypes} \cup
  {Script("ok", "needs_2fa", "success", "none", "none", "ok"),
   Script("ok", "needs_2fa", "success", "get_balance", "RuntimeError", "ok"),
   Script("ok", "failed", "none", "get_balance", "RuntimeError", "ok"),
   Script("ok", "failed", "none", "none", "none", "ok"),
   Script("ok", "success", "none", "none", "none", "ok"),
   Script("ok", "success", "none", "none", "none", "raise")}

\* exceptions: the step that raised, the type, the message
NoExc == [step |-> "none", type |-> "none", msg |-> ""]
Exc(step, type) == [step |-> step, type |-> type, msg |-> "step failed"]
\* cryptography's InvalidToken carries no message
DecryptExc(type) == [step |-> "decrypt", type |-> type, msg |-> ""]
CloseExc == [step |-> "close", type |-> "RuntimeError", msg |-> "close failed"]

\* str(e) or repr(e)
StrOrRepr(e) == IF e.msg # "" THEN e.msg ELSE e.type
\* str(e)
Str(e) == e.msg

ActiveRow == [status |-> "active", last_sync_error |-> "", pending_auth_state |-> FALSE]
PendingRow(row) == [row EXCEPT !.status = "pending_auth", !.pending_auth_state = TRUE]
ErrorRow(row, text) == [row EXCEPT !.status = "error", !.last_sync_error = text]

\* what became of the integration instance of one account's sync: created,
\* close() calls it received, stored in a SyncSession; the crypto operations
\* tried on the credentials; whether the request got as far as needing the
\* credentials; PermissionDenied raised; the exception that
\* escaped a step after the credentials were decrypted; whether get_balance
\* was called and what the last authenticate() or complete_2fa() before it
\* had returned
Run(created, closes, crypto, exc) ==
  [created |-> created, closes |-> closes, stored |-> FALSE, crypto |-> crypto,
   needed |-> crypto # {}, denied |-> FALSE, exc |-> exc, fetched |-> FALSE, auth |-> "none"]

\* the run of a request that went on to _complete_sync
Fetched(r, auth) == [r EXCEPT !.run.fetched = TRUE, !.run.auth = auth]

\* AccountSyncView._complete_sync: get_balance, snapshot, conversion,
\* backfill (which swallows its own exceptions), account.save(), close();
\* the except branch calls close() and re-raises
complete_sync(row, script) ==
  IF script.fail # "none"
  THEN [row |-> row, closes |-> 1, first |-> Exc(script.fail, script.exc),
        raised |-> IF script.close = "ok" THEN Exc(script.fail, script.exc)
                   ELSE CloseExc]
  ELSE IF script.close = "ok"
  THEN [row |-> ActiveRow, closes |-> 1, first |-> NoExc, raised |-> NoExc]
  ELSE [row |-> ActiveRow, closes |-> 2, first |-> NoExc, raised |-> CloseExc]

\* AccountSyncView.post for an account with the given row and credential blob
account_sync(row, blob, script) ==
  LET creds == legacy_decrypt_credentials(blob)
      crypto == {"legacy_decrypt"}
      \* except ValueError: 400; except Exception: mark the account, 500
      Catch(r, created, closes, e, first) ==
        IF e.type = "ValueError"
        THEN [row |-> r, http |-> 400, run |-> Run(created, closes, crypto, first)]
        ELSE [row |-> ErrorRow(r, StrOrRepr(e)), http |-> 500,
              run |-> Run(created, closes, crypto, first)]
      done == complete_sync(row, script)
  IN  IF blob = NoBlob
      THEN [row |-> row, http |-> 400, run |-> Run(FALSE, 0, {}, NoExc)]
      ELSE IF ~creds.ok
      THEN Catch(row, FALSE, 0, DecryptExc(creds.v[1]), NoExc)
      ELSE IF script.sel = "unsupported"
      THEN Catch(row, FALSE, 0, Exc("construct", "ValueError"),
                 Exc("construct", "ValueError"))
      ELSE CASE script.auth = "raise" ->
                  Catch(row, TRUE, 0, Exc("authenticate", script.exc),
                        Exc("authenticate", script.exc))
             [] script.auth = "needs_2fa" ->
                  [row |-> PendingRow(row), http |-> 200,
                   run |-> Run(TRUE, 0, crypto, NoExc)]
             [] script.auth = "failed" ->
                  [row |-> ErrorRow(row, "authentication failed"), http |-> 400,
                   run |-> Run(TRUE, 0, crypto, NoExc)]
             [] OTHER ->
                  Fetched(IF done.raised = NoExc
                          THEN [row |-> done.row, http |-> 200,
                                run |-> Run(TRUE, done.closes, crypto, NoExc)]
                          ELSE Catch(done.row, TRUE, done.closes, done.raised, done.first),
                          script.auth)

\* the body of the loop of SyncAllAccountsView.post for one account
sync_all_one(row, blob, script) ==
  LET creds == legacy_decrypt_credentials(blob)
      crypto == {"legacy_decrypt"}
      \* except Exception: mark the account and go on with the next one
      Catch(r, created, closes, e, first) ==
        [row |-> ErrorRow(r, StrOrRepr(e)), run |-> Run(created, closes, crypto, first)]
      \* close() at the end of a branch, inside the try
      Closed(r) ==
        IF script.close = "ok"
        THEN [row |-> r, run |-> Run(TRUE, 1, crypto, NoExc)]
        ELSE Catch(r, TRUE, 1, CloseExc, NoExc)
  IN  IF ~creds.ok
      THEN Catch(row, FALSE, 0, DecryptExc(creds.v[1]), NoExc)
      ELSE IF script.sel = "unsupported"
      THEN Catch(row, FALSE, 0, Exc("construct", "ValueError"),
                 Exc("construct", "ValueError"))
      ELSE CASE script.auth = "raise" ->
                  Catch(row, TRUE, 0, Exc("authenticate", script.exc),
                        Exc("authenticate", script.exc))
             [] script.auth = "needs_2fa" -> Closed(PendingRow(row))
             [] script.auth = "failed" ->
                  Closed(ErrorRow(row, "authentication failed"))
             [] OTHER ->
                  IF script.fail # "none"
                  THEN Catch(row, TRUE, 0, Exc(script.fail, script.exc),
                             Exc(script.fail, script.exc))
                  ELSE Closed(ActiveRow)

\* AccountAuthView.post for an account that is pending authentication
account_auth(row, blob, script) ==
  LET creds == legacy_decrypt_credentials(blob)
      crypto == {"legacy_decrypt"}
      \* except Exception: mark the account with str(e), 500
      Catch(r, created, closes, e, first) ==
        [row |-> ErrorRow(r, Str(e)), http |-> 500,
         run |-> Run(created, closes, crypto, first)]
      done == complete_sync(row, script)
      Complete ==
        IF done.raised = NoExc
        THEN [row |-> done.row, http |-> 200,
              run |-> Run(TRUE, done.closes, crypto, NoExc)]
        ELSE Catch(done.row, TRUE, done.closes, done.raised, done.first)
  IN  IF row.status # "pending_auth" \/ ~row.pending_auth_state
      THEN [row |-> row, http |-> 400, run |-> Run(FALSE, 0, {}, NoExc)]
      ELSE IF ~creds.ok
      THEN Catch(row, FALSE, 0, DecryptExc(creds.v[1]), NoExc)
      ELSE IF script.sel = "unsupported"
      THEN Catch(row, FALSE, 0, Exc("construct", "ValueError"),
                 Exc("construct", "ValueError"))
      ELSE CASE script.auth = "raise" ->
                  Catch(row, TRUE, 0, Exc("authenticate", script.exc),
                        Exc("authenticate", script.exc))
             [] script.auth = "needs_2fa" /\ script.c2fa = "raise" ->
                  Catch(row, TRUE, 0, Exc("complete_2fa", script.exc),
                        Exc("complete_2fa", script.exc))
             [] script.auth = "needs_2fa" /\ script.c2fa = "failed" ->
                  [row |-> row, http |-> 400, run |-> Run(TRUE, 0, crypto, NoExc)]
             [] OTHER ->
                  Fetched(Complete, IF script.auth = "needs_2fa" THEN script.c2fa ELSE script.auth)

\* KEKAuthenticationMixin.encrypt_account_credentials
encrypt_account_credentials(p, header, credentials) ==
  IF p.encryption_migrated
  THEN LET kek == get_kek(header)
       IN  IF kek = NoKek
           THEN PermissionDenied("KEK required for encrypted operations")
           ELSE IF p.encrypted_user_key = NoBlob
           THEN PermissionDenied("User encryption not set up")
           ELSE LET padded == pad_kek_for_fernet(kek)
                    user_key == IF padded.ok
                                THEN decrypt_user_key(p.encrypted_user_key, padded.v)
                                ELSE padded
                    blob == IF user_key.ok
                            THEN encrypt_credentials(credentials, user_key.v)
                            ELSE user_key
                IN  IF blob.ok THEN blob
                    ELSE PermissionDenied("Failed to encrypt credentials")
  ELSE legacy_encrypt_credentials(credentials)

\* the requests' X-KEK header: absent, or the KEK of the migration
SyncHeaders == {NoKek, [form |-> "raw32", id |-> 1]}

\* seq counts the requests so far
SResp(op, header, http, runs) ==
  [op |-> op, seq |-> sresp.seq + 1, header |-> header,
   migrated |-> profile.encryption_migrated, status |-> http, runs |-> runs]

\* POST /accounts/<pk>/sync/
AccountSync(a, header, script) ==
  LET r == account_sync(acct[a], accounts[a], script)
  IN  /\ sresp.seq < MaxSyncRequests
      /\ acct' = [acct EXCEPT ![a] = r.row]
      /\ sresp' = SResp("sync", header, r.http, [x \in {a} |-> r.run])
      /\ UNCHANGED <<sessVars, concVars, vaultVars, migVars, intVars, histVars>>

\* POST /accounts/sync-all/: every account with credentials, one after the other
SyncAll(header, scripts) ==
  LET todo == {a \in Accounts : accounts[a] # NoBlob}
      r == [a \in todo |-> sync_all_one(acct[a], accounts[a], scripts[a])]
  IN  /\ sresp.seq < MaxSyncRequests
      /\ todo # {}
      /\ \A a \in Accounts \ todo : scripts[a] = Script("ok", "failed", "none", "none", "none", "ok")
      /\ acct' = [a \in Accounts |-> IF a \in todo THEN r[a].row ELSE acct[a]]
      /\ sresp' = SResp("sync_all", header, 200, [a \in todo |-> r[a].run])
      /\ UNCHANGED <<sessVars, concVars, vaultVars, migVars, intVars, histVars>>

\* POST /accounts/<pk>/auth/
AccountAuth(a, header, script) ==
  LET r == account_auth(acct[a], accounts[a], script)
  IN  /\ sresp.seq < MaxSyncRequests
      /\ acct' = [acct EXCEPT ![a] = r.row]
      /\ sresp' = SResp("auth", header, r.http, [x \in {a} |-> r.run])
      /\ UNCHANGED <<sessVars, concVars, vaultVars, migVars, intVars, histVars>>

\* GET /accounts/<pk>/credentials/: a failed decryption is answered with {}
CredentialsGet(a, header) ==
  LET run == IF accounts[a] = NoBlob THEN Run(FALSE, 0, {}, NoExc)
             ELSE Run(FALSE, 0, {"legacy_decrypt"}, NoExc)
  IN  /\ sresp.seq < MaxSyncRequests
      /\ sresp' = SResp("credentials_get", header, 200, [x \in {a} |-> run])
      /\ UNCHANGED <<acct, sessVars, concVars, vaultVars, migVars, intVars, histVars>>

\* PUT /accounts/<pk>/credentials/: merge into what decrypts, store under the
\* master key
CredentialsPut(a, header, given) ==
  LET existing == legacy_decrypt_credentials(accounts[a])
      merged == Credentials(a)
      crypto == IF accounts[a] = NoBlob THEN {"legacy_encrypt"}
                ELSE {"legacy_decrypt", "legacy_encrypt"}
  IN  /\ sresp.seq < MaxSyncRequests
      /\ IF ~given
         THEN /\ sresp' = SResp("credentials_put", header, 400,
                                [x \in {a} |-> Run(FALSE, 0, {}, NoExc)])
              /\ UNCHANGED <<acct, sessVars, concVars, vaultVars, migVars, intVars, histVars>>
         ELSE /\ accounts' =
                   [accounts EXCEPT ![a] = legacy_encrypt_credentials(merged).v]
              /\ acct' = [acct EXCEPT ![a] = [@ EXCEPT !.status = "active",
                                                       !.last_sync_error = ""]]
              /\ sresp' = SResp("credentials_put", header, 200,
                                [x \in {a} |-> Run(FALSE, 0, crypto, NoExc)])
              /\ UNCHANGED <<profile, nKeys, vresp, ghost, sessVars, concVars,
                             migVars, intVars, histVars>>

\* POST /accounts/ with credentials (FinancialAccountCreateSerializer.create):
\* the one place that goes through the KEK mixin
CreateAccount(a, header) ==
  LET blob == encrypt_account_credentials(profile, header, Credentials(a))
      tried == IF ~profile.encryption_migrated THEN {"legacy_encrypt"}
               ELSE IF get_kek(header) = NoKek \/ profile.encrypted_user_key = NoBlob
               THEN {}
               ELSE {"decrypt_user_key"}
      run == [Run(FALSE, 0, tried, NoExc) EXCEPT !.denied = ~blob.ok,
                                                  !.needed = TRUE]
  IN  /\ sresp.seq < MaxSyncRequests
      /\ accounts[a] = NoBlob
      /\ accounts' = IF blob.ok THEN [accounts EXCEPT ![a] = blob.v] ELSE accounts
      /\ acct' = [acct EXCEPT ![a] = NewRow]
      /\ sresp' = SResp("create", header, IF blob.ok THEN 201 ELSE 403,
                        [x \in {a} |-> run])
      /\ UNCHANGED <<profile, nKeys, vresp, ghost, sessVars, concVars, migVars, intVars, histVars>>

\* POST /accounts/bulk/ (BulkAccountCreateView.post) with credentials
BulkAccountCreate(a, header) ==
  /\ sresp.seq < MaxSyncRequests
  /\ accounts[a] = NoBlob
  /\ accounts' = [accounts EXCEPT ![a] = legacy_encrypt_credentials(Credentials(a)).v]
  /\ acct' = [acct EXCEPT ![a] = NewRow]
  /\ sresp' = SResp("bulk_create", header, 201,
                    [x \in {a} |-> Run(FALSE, 0, {"legacy_encrypt"}, NoExc)])
  /\ UNCHANGED <<profile, nKeys, vresp, ghost, sessVars, concVars, migVars, intVars, histVars>>

\* the migration request that the sync runs start from
SyncSetupRequests == {[kek |-> [form |-> "raw32", id |-> 1], new |-> Derived(1)]}

SyncNext ==
  \/ \E r \in SyncSetupRequests :
       SetupEncryption(r.kek, r.new.auth_hash, r.new.auth_salt, r.new.kek_salt)
         /\ VaultFrame
  \/ \E a \in Accounts, header \in SyncHeaders, script \in SyncScripts :
       AccountSync(a, header, script)
  \/ \E header \in SyncHeaders, scripts \in [Accounts -> SyncAllScripts] :
       SyncAll(header, scripts)
  \/ \E a \in Accounts, header \in SyncHeaders, script \in AuthScripts :
       AccountAuth(a, header, script)
  \/ \E a \in Accounts, header \in SyncHeaders : CredentialsGet(a, header)
  \/ \E a \in Accounts, header \in SyncHeaders, given \in BOOLEAN :
       CredentialsPut(a, header, given)
  \/ \E a \in Accounts, header \in SyncHeaders : CreateAccount(a, header)
  \/ \E a \in Accounts, header \in SyncHeaders : BulkAccountCreate(a, header)
  \/ \E auth \in {"success", "needs_2fa", "failed", "raise"} :
       \E acc \in IF auth = "success" THEN {"ok", "raise"} ELSE {"ok"} :
         /\ nDiscover < MaxSyncDiscover
         /\ Discover(auth, acc, "ok", {})
         /\ SeqFrame

\* the accounts' credentials, where there are any, are under the master key
SyncSpecInit ==
  /\ SessTable /\ ConcIdle /\ VaultInit /\ MigIdle /\ SyncIdle /\ IntegIdle /\ HistIdle
  /\ \A a \in Accounts : accounts[a] # NoBlob => accounts[a].k = MasterKey

SpecSync == SyncSpecInit /\ [][SyncNext]_vars

\* ------------------------------------------------------------------------
\* Properties of the sync and credentials views
\* ------------------------------------------------------------------------
\* C11: for a migrated user, a request without KEK header that needs an
\* account's stored credentials (sync, sync-all, 2FA completion, credential
\* read and update, account creation with credentials) fails with
\* PermissionDenied and tries no decryption or encryption with any key.
C11_NoKekDenied ==
  (sresp.op # "none" /\ sresp.migrated /\ sresp.header = NoKek) =>
    \A a \in DOMAIN sresp.runs :
      sresp.runs[a].needed =>
        /\ sresp.runs[a].denied
        /\ sresp.runs[a].crypto = {}

\* C12: every integration instance created by a sync, sync-all or discovery
\* request has received close() when the request returns, unless the request
\* stored it in a SyncSession.
C12_IntegrationReleased ==
  /\ sresp.op \in {"sync", "sync_all"} =>
       \A a \in DOMAIN sresp.runs :
         sresp.runs[a].created =>
           sresp.runs[a].stored \/ sresp.runs[a].closes >= 1
  /\ (resp.op = "discover" /\ "authenticate" \in resp.calls) =>
       resp.token # NoToken \/ "close" \in resp.calls

\* C13: when an exception escapes a step of an account sync after the
\* credentials were decrypted, the account ends with status 'error' and
\* last_sync_error is the exception's message.
C13_ErrorStatusRecorded ==
  sresp.op = "sync" =>
    \A a \in DOMAIN sresp.runs :
      sresp.runs[a].exc # NoExc =>
        /\ acct[a].status = "error"
        /\ acct[a].last_sync_error = sresp.runs[a].exc.msg

\* ------------------------------------------------------------------------
\* One broker integration and its broker (brokers/integrations)
\* ------------------------------------------------------------------------
\* the credential fields an integration reads; a credentials object is the
\* set of the fields that are present and not empty
CredentialFields == {"username", "pin", "password", "flex_token", "query_id", "jwt_token", "employee_id"}

CredentialSets == {c \in SUBSET CredentialFields : Cardinality(c) <= 2}

\* Broker rows: the FinTS banks (integration_type 'fints') and the brokers
\* told apart by their code
Brokers == {[integration_type |-> "fints", code |-> "bank"]} \cup {[integration_type |-> "api", code |-> c] : c \in {"ibkr", "truewealth", "viac", "morganstanley", "ibkr_flex", "other"}}

\* the class get_broker_integration constructs, or "ValueError"
get_broker_integration(broker, credentials) ==
  IF broker.integration_type = "fints" THEN "fints"
  ELSE IF broker.code = "ibkr"
    THEN IF {"flex_token", "query_id"} \subseteq credentials THEN "ibkr_flex" ELSE "ibkr"
  ELSE IF broker.code \in {"truewealth", "viac", "morganstanley", "ibkr_flex"} THEN broker.code
  ELSE "ValueError"

\* the credential fields a variant cannot authenticate without
RequiredFields(variant) ==
  CASE variant = "fints" -> {"username", "pin"}
    [] variant \in {"truewealth", "viac"} -> {"username", "password"}
    [] variant = "ibkr_flex" -> {"flex_token", "query_id"}
    [] variant = "morganstanley" -> {"jwt_token", "employee_id"}
    [] OTHER -> {}

\* __init__: every variant but FinTS opens its HTTP session object at once;
\* of the credentials, the instance is left with the fields its class reads
NewInteg(variant, credentials) ==
  [NoInteg EXCEPT !.variant = variant, !.credentials = credentials \cap RequiredFields(variant), !.session = (variant # "fints")]

AuthResult(success, requires_2fa, two_fa_type, error) ==
  [success |-> success, requires_2fa |-> requires_2fa, two_fa_type |-> two_fa_type, error |-> error]

Failure(error) == AuthResult(FALSE, FALSE, "none", error)

\* what a method call leaves behind: the instance, the broker, the result,
\* the network calls made, the polls among them and the codes submitted
Out(i, b, result, calls, polls, sent) ==
  [integ |-> i, bank |-> [b EXCEPT !.calls = @ + calls], result |-> result,
   calls |-> calls, polls |-> polls, sent |-> sent]

\* a loop that goes on polling until the bank answers
PollsMutant(approveAt, max) == approveAt

\* the decoupled loop: the poll numbered approveAt is the first one the bank
\* answers without asking for approval again; the loop makes at most max polls
Polls(approveAt, max) == IF approveAt <= max THEN approveAt ELSE max

\* what the broker (or, for "invalid", the protocol library before it sends
\* anything) can answer to the calls of authenticate()
AuthAnswers(i) ==
  CASE i.variant = "fints" ->
         IF RequiredFields("fints") \subseteq i.credentials
           THEN {"ok", "manual", "decoupled", "error"}
           ELSE {"invalid", "error"}
    [] i.variant = "truewealth" -> {"manual", "error"}
    [] i.variant = "viac" -> {"ok", "manual", "denied", "error", "bad_format"}
    [] i.variant = "ibkr" -> {"ok", "gateway", "error"}
    [] OTHER -> {"ok"}

\* FinTSIntegration.authenticate: a new client and a new dialog on every call;
\* the client held before is dropped without __exit__
fints_authenticate(i, b, answer, approveAt) ==
  LET d == b.nDialogs + 1
      c == b.challenge + 1
      fresh == [i EXCEPT !.session = TRUE, !.dialog = 0, !.tan = 0, !.pending = "none"]
      opened == [b EXCEPT !.nDialogs = d, !.open = @ \cup {d}]
      asked == [opened EXCEPT !.challenge = c]
      n == Polls(approveAt, AuthPollAttempts)
  IN CASE answer = "invalid" -> Out(fresh, b, Failure("failed"), 0, 0, 0)
       [] answer = "error" -> Out(fresh, b, Failure("failed"), 1, 0, 0)
       [] answer = "ok" ->
            Out([fresh EXCEPT !.dialog = d, !.authenticated = TRUE], opened,
                AuthResult(TRUE, FALSE, "none", "none"), 2, 0, 0)
       [] answer = "manual" ->
            Out([fresh EXCEPT !.dialog = d, !.tan = c, !.pending = "manual"], asked,
                AuthResult(FALSE, TRUE, "tan", "none"), 2, 0, 0)
       [] answer = "decoupled" ->
            IF approveAt <= AuthPollAttempts
              THEN Out([fresh EXCEPT !.dialog = d, !.tan = c, !.pending = "decoupled", !.authenticated = TRUE],
                       asked, AuthResult(TRUE, FALSE, "none", "none"), 2 + n, n, 0)
              ELSE Out([fresh EXCEPT !.dialog = d, !.tan = c, !.pending = "decoupled"],
                       asked, Failure("timeout"), 2 + n, n, 0)

\* authenticate() of the HTTP variants
http_authenticate(i, b, answer) ==
  IF RequiredFields(i.variant) \ i.credentials # {} \/ answer = "bad_format"
    THEN Out(i, b, Failure("config"), 0, 0, 0)
  ELSE IF i.variant \in {"ibkr_flex", "morganstanley"}
    THEN Out([i EXCEPT !.authenticated = TRUE], b, AuthResult(TRUE, FALSE, "none", "none"), 0, 0, 0)
  ELSE IF ~i.session THEN Out(i, b, Failure("failed"), 0, 0, 0)
  ELSE IF answer = "error" THEN Out(i, b, Failure("failed"), 1, 0, 0)
  ELSE IF i.variant = "truewealth"
    THEN Out([i EXCEPT !.pending = "manual"], b, AuthResult(FALSE, TRUE, "totp", "none"), 1, 0, 0)
  ELSE IF answer = "ok"
    THEN Out([i EXCEPT !.authenticated = TRUE], b, AuthResult(TRUE, FALSE, "none", "none"), 2, 0, 0)
  ELSE IF answer = "manual"
    THEN Out([i EXCEPT !.pending = "manual"], b, AuthResult(FALSE, TRUE, "app", "none"), 2, 0, 0)
  ELSE IF answer = "gateway"
    THEN Out([i EXCEPT !.pending = "gateway"], b, AuthResult(FALSE, TRUE, "gateway", "none"), 1, 0, 0)
  ELSE Out(i, b, Failure("failed"), 2, 0, 0)

authenticate(i, b, answer, approveAt) ==
  IF i.variant = "fints" THEN fints_authenticate(i, b, answer, approveAt)
  ELSE http_authenticate(i, b, answer)

\* what the broker can answer to the calls of complete_2fa(); "again": the
\* code is answered with another request for a code
CompleteAnswers(i) ==
  IF i.variant \in {"ibkr", "ibkr_flex"} THEN AuthAnswers(i) ELSE {"ok", "again", "error"}

\* FinTSIntegration.complete_2fa without its check that a code was supplied
fints_complete_2faMutant(i, b, code, decoupled, answer, approveAt) ==
  LET n == Polls(approveAt, Complete2faPollAttempts)
      got == [b EXCEPT !.received = Append(@, i.tan)]
  IN IF ~i.session THEN Out(i, b, Failure("no_session"), 0, 0, 0)
     ELSE IF i.tan = 0 THEN Out(i, b, Failure("not_restored"), 0, 0, 0)
     ELSE IF decoupled
       THEN IF answer = "error" THEN Out(i, b, Failure("failed"), 1, 1, 0)
            ELSE IF approveAt <= Complete2faPollAttempts
              THEN Out([i EXCEPT !.authenticated = TRUE], b, AuthResult(TRUE, FALSE, "none", "none"), n, n, 0)
              ELSE Out(i, b, Failure("timeout"), n, n, 0)
     ELSE IF answer = "error" THEN Out(i, got, Failure("failed"), 1, 0, 1)
     ELSE Out([i EXCEPT !.authenticated = TRUE], got, AuthResult(TRUE, FALSE, "none", "none"), 1, 0, 1)

\* FinTSIntegration.complete_2fa; code: an auth_code was supplied; decoupled:
\* session_data.get('decoupled')
fints_complete_2fa(i, b, code, decoupled, answer, approveAt) ==
  LET n == Polls(approveAt, Complete2faPollAttempts)
      got == [b EXCEPT !.received = Append(@, i.tan)]
  IN IF ~i.session THEN Out(i, b, Failure("no_session"), 0, 0, 0)
     ELSE IF i.tan = 0 THEN Out(i, b, Failure("not_restored"), 0, 0, 0)
     ELSE IF decoupled
       THEN IF answer = "error" THEN Out(i, b, Failure("failed"), 1, 1, 0)
            ELSE IF approveAt <= Complete2faPollAttempts
              THEN Out([i EXCEPT !.authenticated = TRUE], b, AuthResult(TRUE, FALSE, "none", "none"), n, n, 0)
              ELSE Out(i, b, Failure("timeout"), n, n, 0)
     ELSE IF ~code THEN Out(i, b, Failure("missing_input"), 0, 0, 0)
     ELSE IF answer = "error" THEN Out(i, got, Failure("failed"), 1, 0, 1)
     ELSE Out([i EXCEPT !.authenticated = TRUE], got, AuthResult(TRUE, FALSE, "none", "none"), 1, 0, 1)

\* complete_2fa() of the HTTP variants; IBKR and Flex check again with
\* authenticate(), Morgan Stanley has no second factor to complete
http_complete_2fa(i, b, code, answer) ==
  LET cookies == IF i.pending = "none" THEN 1 ELSE 0
  IN IF i.variant \in {"ibkr", "ibkr_flex"} THEN http_authenticate(i, b, answer)
     ELSE IF i.variant = "morganstanley" THEN Out(i, b, Failure("unsupported"), 0, 0, 0)
     ELSE IF ~code THEN Out(i, b, Failure("missing_input"), 0, 0, 0)
     ELSE IF ~i.session
       THEN Out(i, b, Failure(IF i.variant = "truewealth" THEN "raised" ELSE "failed"), 0, 0, 0)
     ELSE IF answer = "ok"
       THEN Out([i EXCEPT !.authenticated = TRUE], b, AuthResult(TRUE, FALSE, "none", "none"), cookies + 1, 0, 1)
     ELSE IF answer = "again" /\ i.variant = "truewealth"
       THEN Out(i, b, AuthResult(FALSE, TRUE, "totp", "none"), cookies + 1, 0, 1)
     ELSE Out(i, b, Failure("failed"), cookies + 1, 0, 1)

complete_2fa(i, b, code, decoupled, answer, approveAt) ==
  IF i.variant = "fints" THEN fints_complete_2fa(i, b, code, decoupled, answer, approveAt)
  ELSE http_complete_2fa(i, b, code, answer)

\* the variants whose close() calls self._session.close() outside any try
CloseCanRaise(i) == i.session /\ i.variant \in {"truewealth", "viac", "morganstanley", "ibkr_flex"}

\* close() that keeps the session object after closing it
closeMutant(i, b, raises) ==
  LET closed == [i EXCEPT !.dialog = 0, !.tan = 0, !.authenticated = FALSE, !.pending = "none"]
      logout == IF i.variant \in {"fints", "truewealth", "viac", "morganstanley"} THEN 1 ELSE 0
  IN IF ~i.session
       THEN Out(IF i.variant = "fints" THEN i ELSE closed, b, AuthResult(TRUE, FALSE, "none", "none"), 0, 0, 0)
     ELSE IF raises THEN Out(i, b, Failure("raised"), logout, 0, 0)
     ELSE Out(closed, [b EXCEPT !.open = @ \ {i.dialog}], AuthResult(TRUE, FALSE, "none", "none"), logout, 0, 0)

\* close() of every variant; raises: self._session.close() raises
close(i, b, raises) ==
  LET closed == [i EXCEPT !.session = FALSE, !.dialog = 0, !.tan = 0, !.authenticated = FALSE, !.pending = "none"]
      logout == IF i.variant \in {"fints", "truewealth", "viac", "morganstanley"} THEN 1 ELSE 0
  IN IF ~i.session
       THEN Out(IF i.variant = "fints" THEN i ELSE closed, b, AuthResult(TRUE, FALSE, "none", "none"), 0, 0, 0)
     ELSE IF raises THEN Out(i, b, Failure("raised"), logout, 0, 0)
     ELSE Out(closed, [b EXCEPT !.open = @ \ {i.dialog}], AuthResult(TRUE, FALSE, "none", "none"), logout, 0, 0)

\* the numbers of the poll that ends the bank's wait for the approval; the
\* last one is beyond both loops
ApproveAt == {1, 6, AuthPollAttempts, Complete2faPollAttempts, Complete2faPollAttempts + 1}

\* the record of the call that ran last
IResp(op, out, code, decoupled, answer, approveAt) ==
  [op |-> op, n |-> iresp.n + 1, pre |-> integ, preOpen |-> bank.open, result |-> out.result,
   calls |-> out.calls, polls |-> out.polls, sent |-> out.sent, code |-> code,
   decoupled |-> decoupled, answer |-> answer, approveAt |-> approveAt,
   prevOp |-> iresp.op, prevRaised |-> (iresp.op # "none" /\ iresp.op # "select" /\ iresp.result.error = "raised")]

IntegFrame == UNCHANGED <<sessVars, concVars, vaultVars, migVars, syncVars, histVars>>

\* get_broker_integration(broker, credentials)
Select(broker, credentials) ==
  LET variant == get_broker_integration(broker, credentials)
  IN /\ integ.variant = "none"
     /\ iresp.n < MaxIntegCalls
     /\ integ' = IF variant = "ValueError" THEN NoInteg ELSE NewInteg(variant, credentials)
     /\ iresp' = [op |-> "select", n |-> iresp.n + 1, broker |-> broker, credentials |-> credentials, variant |-> variant]
     /\ UNCHANGED <<bank, held>>
     /\ IntegFrame

\* integration.authenticate(); BrokerDiscoverView.post keeps the instance in
\* a session only when the result asks for a second factor
Authenticate(answer, approveAt) ==
  LET out == authenticate(integ, bank, answer, approveAt)
  IN /\ integ.variant # "none"
     /\ iresp.n < MaxIntegCalls
     /\ integ' = out.integ
     /\ bank' = out.bank
     /\ held' = out.result.requires_2fa
     /\ iresp' = IResp("authenticate", out, FALSE, FALSE, answer, approveAt)
     /\ IntegFrame

\* integration.complete_2fa(auth_code, session_data);
\* BrokerDiscoverCompleteAuthView.post drops the session on success
Complete2fa(code, decoupled, answer, approveAt) ==
  LET out == complete_2fa(integ, bank, code, decoupled, answer, approveAt)
  IN /\ integ.variant # "none"
     /\ iresp.n < MaxIntegCalls
     /\ integ' = out.integ
     /\ bank' = out.bank
     /\ held' = (held /\ ~out.result.success)
     /\ iresp' = IResp("complete_2fa", out, code, decoupled, answer, approveAt)
     /\ IntegFrame

\* integration.close()
Close(raises) ==
  LET out == close(integ, bank, raises)
  IN /\ integ.variant # "none"
     /\ iresp.n < MaxIntegCalls
     /\ integ' = out.integ
     /\ bank' = out.bank
     /\ held' = FALSE
     /\ iresp' = IResp("close", out, FALSE, FALSE, "none", 0)
     /\ IntegFrame

IntegNext ==
  \/ \E broker \in Brokers, credentials \in CredentialSets : Select(broker, credentials)
  \/ \E answer \in AuthAnswers(integ), approveAt \in ApproveAt : Authenticate(answer, IF answer = "decoupled" THEN approveAt ELSE 0)
  \/ \E code \in BOOLEAN, decoupled \in BOOLEAN, answer \in CompleteAnswers(integ), approveAt \in ApproveAt : Complete2fa(code, decoupled /\ integ.variant = "fints", answer, IF decoupled /\ integ.variant = "fints" THEN approveAt ELSE 0)
  \/ \E raises \in BOOLEAN : Close(raises /\ CloseCanRaise(integ))

IntegInit == SessTable /\ ConcIdle /\ VaultIdle /\ MigIdle /\ SyncIdle /\ IntegIdle /\ HistIdle

SpecInteg == IntegInit /\ [][IntegNext]_vars

\* ------------------------------------------------------------------------
\* Claims about one integration
\* ------------------------------------------------------------------------
\* C14: when the bank asks for a decoupled approval, authenticate() returns a
\* non-terminal result that requires a challenge of type decoupled; when five
\* polls are answered pending and the sixth succeeds the integration is
\* authenticated; a close() that follows leaves it closed and unauthenticated.
C14_DecoupledScenario ==
  /\ (iresp.op = "authenticate" /\ iresp.answer = "decoupled") =>
       /\ ~iresp.result.success
       /\ iresp.result.requires_2fa
       /\ iresp.result.two_fa_type = "decoupled"
  /\ (iresp.op \in {"authenticate", "complete_2fa"} /\ iresp.polls > 0 /\ iresp.approveAt = 6 /\ iresp.answer # "error") =>
       (iresp.polls = 6 /\ iresp.result.success /\ integ.authenticated)
  /\ (iresp.op = "close" /\ iresp.result.success) =>
       (~integ.session /\ ~integ.authenticated)

\* C15: after a decoupled poll loop used up its attempts and reported a
\* timeout, in authenticate() or in complete_2fa(), the flow is in
\* ChallengeIssued again: the instance is still held in its session, with the
\* same client and the same pending challenge, so completion can be retried.
C15_TimeoutBackInChallengeIssued ==
  (iresp.op \in {"authenticate", "complete_2fa"} /\ iresp.result.error = "timeout") =>
    /\ held
    /\ integ.session
    /\ integ.tan # 0
    /\ integ.dialog \in bank.open
    /\ ~integ.authenticated

C17_AuthenticateIdempotent ==
  /\ (/\ iresp.op = "authenticate"
      /\ iresp.pre.pending = "manual"
      /\ iresp.result.requires_2fa) =>
       /\ Cardinality(bank.open) <= 1
       /\ integ.tan = iresp.pre.tan
  /\ (iresp.op = "close" /\ iresp.result.success) => bank.open = {}

C19_SelectionNeverFallsBack ==
  iresp.op = "select" =>
    LET flex == iresp.credentials \cap {"flex_token", "query_id"}
        noShape == iresp.broker.code = "ibkr" /\ Cardinality(flex) = 1
        unknown == iresp.broker.code = "other"
    IN (iresp.broker.integration_type # "fints" /\ (noShape \/ unknown)) =>
         (iresp.variant = "ValueError" /\ integ = NoInteg)

\* C20: authenticate() on an integration that lacks a required credential
\* field fails without a single network or protocol call.
C20_MissingFieldBeforeNetwork ==
  (iresp.op = "authenticate" /\ RequiredFields(iresp.pre.variant) \ iresp.pre.credentials # {}) =>
    /\ ~iresp.result.success
    /\ ~iresp.result.requires_2fa
    /\ iresp.calls = 0

\* C27: the decoupled poll loops end within their budgets: authenticate()
\* polls at most 60 times and complete_2fa() at most 120 times; the loop ends
\* with success at the first poll that is not answered with another request
\* for approval, and with a timeout failure, never success, when the budget
\* is used up.
C27_PollingBounded ==
  (iresp.op \in {"authenticate", "complete_2fa"} /\ iresp.polls > 0 /\ iresp.answer # "error") =>
    LET max == IF iresp.op = "authenticate" THEN AuthPollAttempts ELSE Complete2faPollAttempts
    IN /\ iresp.polls <= max
       /\ iresp.calls <= max + 2
       /\ IF iresp.approveAt <= max
            THEN iresp.polls = iresp.approveAt /\ iresp.result.success /\ integ.authenticated
            ELSE /\ iresp.polls = max
                 /\ iresp.result.error = "timeout"
                 /\ ~iresp.result.success
                 /\ integ.authenticated = iresp.pre.authenticated

C27_Witness ==
  /\ iresp.op = "complete_2fa"
  /\ iresp.approveAt > Complete2faPollAttempts
  /\ iresp.polls = Complete2faPollAttempts
  /\ iresp.result.error = "timeout"

\* C30: on the manual TAN path of FinTS complete_2fa() succeeds and marks the
\* integration authenticated only when the bank's reply to the TAN is
\* terminal; a reply that asks for another TAN gives no success and leaves
\* the integration unauthenticated.
C30_TanReplyChecked ==
  (/\ iresp.op = "complete_2fa"
   /\ iresp.pre.variant = "fints"
   /\ iresp.sent = 1
   /\ iresp.answer = "again") =>
    /\ ~iresp.result.success
    /\ integ.authenticated = iresp.pre.authenticated

\* ------------------------------------------------------------------------
\* Claims about the sync views and the stored credentials
\* ------------------------------------------------------------------------
\* C28: every stored credential blob is encrypted under the key its owner's
\* mode flag stands for: the user's key when encryption_migrated is set, the
\* server master key otherwise.
C28_BlobRegimeMatchesFlag ==
  \A a \in Accounts :
    accounts[a] # NoBlob =>
      accounts[a].k = IF profile.encryption_migrated THEN ghost.user_key ELSE MasterKey

\* C29: get_balance and the snapshot persistence run only after an
\* authenticate() or complete_2fa() that returned success, in the sync
\* request and in the 2FA-completion request.
C29_BalanceOnlyWhenAuthenticated ==
  sresp.op \in {"sync", "auth"} =>
    \A a \in DOMAIN sresp.runs :
      sresp.runs[a].fetched => sresp.runs[a].auth = "success"

\* ------------------------------------------------------------------------
\* Exchange rates (exchange_rates/models.py, exchange_rates/services.py)
\* ------------------------------------------------------------------------
\* Python's None where a number is expected
None == -1

\* Decimal numbers are kept as hundredths: Decimal('1.0')
One == 100

Currencies == {"EUR", "USD"}

\* the user's base currency
BaseCurrency == "EUR"

\* Decimal multiplication and Decimal('1.0') / rate, exact for the rates and
\* balances of the model
Mul(balance, rate) == (balance * rate) \div One

Reciprocal(rate) == (One * One) \div rate

HistFrame == UNCHANGED <<sessVars, concVars, vaultVars, migVars, syncVars, intVars>>

\* order_by('-rate_date').first()
LatestRate(rows) == CHOOSE r \in rows : \A q \in rows : q.rate_date <= r.rate_date

\* a lookup that takes the stored rate nearest to the date, later ones too
get_rateMutant(rows, from_currency, to_currency, date) ==
  LET direct == {r \in rows : r.from_currency = from_currency /\ r.to_currency = to_currency}
      inverse == {r \in rows : r.from_currency = to_currency /\ r.to_currency = from_currency /\ r.rate_date <= date}
  IN IF from_currency = to_currency THEN One
     ELSE IF direct # {} THEN LatestRate(direct).rate
     ELSE IF inverse # {} THEN Reciprocal(LatestRate(inverse).rate)
     ELSE None

\* ExchangeRate.get_rate
get_rate(rows, from_currency, to_currency, date) ==
  LET exact == {r \in rows : r.from_currency = from_currency /\ r.to_currency = to_currency /\ r.rate_date = date}
      prior == {r \in rows : r.from_currency = from_currency /\ r.to_currency = to_currency /\ r.rate_date <= date}
      inverse == {r \in rows : r.from_currency = to_currency /\ r.to_currency = from_currency /\ r.rate_date <= date}
  IN IF from_currency = to_currency THEN One
     ELSE IF exact # {} THEN (CHOOSE r \in exact : TRUE).rate
     ELSE IF prior # {} THEN LatestRate(prior).rate
     ELSE IF inverse # {} THEN Reciprocal(LatestRate(inverse).rate)
     ELSE None

RateRow(from_currency, to_currency, rate_date, rate) ==
  [from_currency |-> from_currency, to_currency |-> to_currency, rate_date |-> rate_date, rate |-> rate]

\* rows the table can hold: one per pair and date
StoredRates == {RateRow("USD", "EUR", 10, 50), RateRow("USD", "EUR", 20, 25), RateRow("USD", "EUR", 30, 400), RateRow("EUR", "USD", 15, 200), RateRow("EUR", "USD", 28, 400)}

LookupDates == {5, 10, 18, 20, 29}

\* a call of ExchangeRate.get_rate(from_currency, to_currency, date)
LookupRate(from_currency, to_currency, date) ==
  /\ hresp' = [op |-> "get_rate", seq |-> hresp.seq, from_currency |-> from_currency, to_currency |-> to_currency,
               date |-> date, rate |-> get_rate(rates, from_currency, to_currency, date)]
  /\ UNCHANGED <<today, snapshots, rates, feed>>
  /\ HistFrame

RatesNext == \E from_currency \in Currencies, to_currency \in Currencies, date \in LookupDates : LookupRate(from_currency, to_currency, date)

RatesInit ==
  /\ SessTable /\ ConcIdle /\ VaultIdle /\ MigIdle /\ SyncIdle /\ IntegIdle
  /\ today = 30
  /\ snapshots = {}
  /\ rates \in SUBSET StoredRates
  /\ feed = [variant |-> "fints", currency |-> "EUR"]
  /\ hresp = [op |-> "none", seq |-> 0]

SpecRates == RatesInit /\ [][RatesNext]_vars

\* C24: the lookup for (from, to, date) returns 1 when from = to; else the
\* rate stored for the date; else the stored rate with the latest date
\* before it; else the reciprocal of the reverse pair's rate with the latest
\* date on or before it; else null. No rate dated after the date is used.
C24_RateFallbackOrder ==
  hresp.op = "get_rate" =>
    LET direct == {r \in rates : r.from_currency = hresp.from_currency /\ r.to_currency = hresp.to_currency}
        reverse == {r \in rates : r.from_currency = hresp.to_currency /\ r.to_currency = hresp.from_currency}
        At(rows, d) == {r \in rows : r.rate_date = d}
        Before(rows, d) == {r \in rows : r.rate_date < d}
        Newest(rows) == {r \in rows : \A q \in rows : q.rate_date <= r.rate_date}
    IN IF hresp.from_currency = hresp.to_currency THEN hresp.rate = One
       ELSE IF At(direct, hresp.date) # {}
         THEN \A r \in At(direct, hresp.date) : hresp.rate = r.rate
       ELSE IF Before(direct, hresp.date) # {}
         THEN \A r \in Newest(Before(direct, hresp.date)) : hresp.rate = r.rate
       ELSE IF Before(reverse, hresp.date + 1) # {}
         THEN \A r \in Newest(Before(reverse, hresp.date + 1)) : hresp.rate * r.rate = One * One
       ELSE hresp.rate = None

C24_Witness ==
  /\ hresp.op = "get_rate"
  /\ hresp.from_currency = "USD"
  /\ hresp.to_currency = "EUR"
  /\ hresp.date = 18
  /\ rates = {RateRow("USD", "EUR", 20, 25), RateRow("EUR", "USD", 15, 200), RateRow("EUR", "USD", 28, 400)}
  /\ hresp.rate = 50

\* ------------------------------------------------------------------------
\* Snapshots, conversion and historical backfill (portfolio/views.py 160-349)
\* ------------------------------------------------------------------------
\* an AccountSnapshot row; the id stands for created_at as well
Snapshot(account, snapshot_date, currency, balance, base, id) ==
  [account |-> account, snapshot_date |-> snapshot_date, currency |-> currency, balance |-> balance, balance_base_currency |-> base, id |-> id]

\* ids count up from 1 and no row is deleted
NextId(rows) == Cardinality(rows) + 1

\* BalanceInfo
BalanceInfo(balance, currency, balance_date) == [balance |-> balance, currency |-> currency, balance_date |-> balance_date]

supports_historical_data(variant) == variant \in {"truewealth", "viac", "ibkr_flex"}

historical_data_requires_extra_request(variant) == variant # "ibkr_flex"

\* what the rates API does when asked: the request fails, it has no rates
\* for the day, or it answers with the day's rates
ApiAnswers == {"raise", "nothing", "rates"}

\* the rate the API quotes for USD in EUR
ApiRates == [USD |-> 200, EUR |-> 50]

\* ExchangeRateService.fetch_rates_for_date: update_or_create per pair
fetch_rates_for_date(rows, target_date, api) ==
  IF api # "rates" THEN rows
  ELSE {r \in rows : r.rate_date # target_date} \cup
       {RateRow(c, t, target_date, ApiRates[c]) : <<c, t>> \in {<<"USD", "EUR">>, <<"EUR", "USD">>}}

\* ExchangeRateService.get_rate: the rate it returns, the rate it found
\* (None if none), the table afterwards, and whether the fetch raised
ExchangeRateService_get_rate(rows, from_currency, to_currency, rate_date, api) ==
  LET first == get_rate(rows, from_currency, to_currency, rate_date)
      fetched == fetch_rates_for_date(rows, rate_date, api)
      second == get_rate(fetched, from_currency, to_currency, rate_date)
  IN IF first # None THEN [rate |-> first, found |-> first, rows |-> rows, raised |-> FALSE]
     ELSE IF api = "raise" THEN [rate |-> None, found |-> None, rows |-> rows, raised |-> TRUE]
     ELSE [rate |-> IF second # None THEN second ELSE One, found |-> second, rows |-> fetched, raised |-> FALSE]

Min(S) == CHOOSE x \in S : \A y \in S : x <= y

\* a scan that starts one day short of the lookback
oldest_gapMutant(existing_dates, end_date) ==
  LET missing == {end_date - days_ago : days_ago \in (SkipRecentDays + 1)..(MaxLookbackDays - 1)} \ existing_dates
  IN IF missing = {} THEN None ELSE Min(missing)

\* for days_ago in range(max_lookback, skip_if_recent_days, -1): the first
\* check_date that is not in existing_dates, the oldest of the missing days
oldest_gap(existing_dates, end_date) ==
  LET missing == {end_date - days_ago : days_ago \in (SkipRecentDays + 1)..MaxLookbackDays} \ existing_dates
  IN IF missing = {} THEN None ELSE Min(missing)

\* start_date of the request, None when there is nothing to request
start_date(variant, existing_dates, end_date) ==
  LET gap == oldest_gap(existing_dates, end_date)
      max_start == end_date - (MaxLookbackDays + BufferDays)
  IN IF ~historical_data_requires_extra_request(variant) THEN end_date - WideWindowDays
     ELSE IF gap = None THEN None
     ELSE IF gap - BufferDays < max_start THEN max_start ELSE gap - BufferDays

\* the loop over the returned balances; st carries the tables, existing_dates,
\* created_count, the rows created so far and whether an exception ended it
RECURSIVE backfill_loop(_, _, _, _)
backfill_loop(account, historical, api, st) ==
  IF historical = <<>> \/ st.raised THEN st
  ELSE LET bal_info == Head(historical)
           conv == ExchangeRateService_get_rate(st.rates, bal_info.currency, BaseCurrency, bal_info.balance_date, api)
           base == IF bal_info.currency = BaseCurrency THEN bal_info.balance
                   ELSE IF ~conv.raised /\ conv.rate # One THEN Mul(bal_info.balance, conv.rate)
                   ELSE None
           row == Snapshot(account, bal_info.balance_date, bal_info.currency, bal_info.balance, base, NextId(st.snapshots))
           found == IF bal_info.currency = BaseCurrency THEN One ELSE conv.found
           made == [st EXCEPT !.snapshots = @ \cup {row}, !.persisted = @ \cup {[id |-> row.id, by |-> "backfill", found |-> found]}]
       IN IF bal_info.balance_date \in st.existing_dates THEN backfill_loop(account, Tail(historical), api, st)
          ELSE IF bal_info.currency # BaseCurrency /\ conv.raised THEN [made EXCEPT !.raised = TRUE]
          ELSE backfill_loop(account, Tail(historical), api,
                 [made EXCEPT !.rates = IF bal_info.currency # BaseCurrency THEN conv.rows ELSE @,
                              !.created_count = @ + 1,
                              !.existing_dates = @ \cup {bal_info.balance_date}])

\* _backfill_historical: tables afterwards, the window requested (<<>> when
\* get_historical_balances was not called) and the count returned
backfill_historical(account, variant, rows, rateRows, end_date, historical, api, persisted) ==
  LET existing_dates == {r.snapshot_date : r \in {q \in rows : q.account = account}}
      start == start_date(variant, existing_dates, end_date)
      st0 == [snapshots |-> rows, rates |-> rateRows, existing_dates |-> existing_dates, created_count |-> 0, persisted |-> persisted, raised |-> FALSE]
      st == IF start = None \/ historical.raised THEN st0 ELSE backfill_loop(account, historical.balances, api, st0)
  IN [snapshots |-> st.snapshots, rates |-> st.rates, persisted |-> st.persisted,
      before |-> existing_dates,
      window |-> IF start = None THEN <<>> ELSE <<start, end_date>>,
      looped |-> start # None /\ ~historical.raised /\ historical.balances # <<>>,
      count |-> IF st.raised THEN 0 ELSE st.created_count]

\* _complete_sync, lines 166-201: the snapshot of the balance and its
\* conversion
store_balance(account, rows, rateRows, balance_info, api) ==
  LET existing == {r \in rows : r.account = account /\ r.balance = balance_info.balance /\ r.currency = balance_info.currency /\ r.snapshot_date = balance_info.balance_date}
      created == existing = {}
      snapshot == IF created THEN Snapshot(account, balance_info.balance_date, balance_info.currency, balance_info.balance, None, NextId(rows))
                  ELSE CHOOSE r \in existing : \A q \in existing : r.id <= q.id
      conv == ExchangeRateService_get_rate(rateRows, balance_info.currency, BaseCurrency, balance_info.balance_date, api)
      foreign == balance_info.currency # BaseCurrency
      saved == IF foreign /\ ~conv.raised /\ conv.rate # One
                 THEN [snapshot EXCEPT !.balance_base_currency = Mul(balance_info.balance, conv.rate)]
                 ELSE snapshot
  IN [snapshots |-> (rows \ {snapshot}) \cup {saved},
      rates |-> IF foreign THEN conv.rows ELSE rateRows,
      created |-> created,
      persisted |-> IF created THEN {[id |-> snapshot.id, by |-> "sync", found |-> IF foreign THEN conv.found ELSE One]} ELSE {},
      raised |-> foreign /\ conv.raised]

\* the day the model calls today, and the account that is synced
SyncDay == 400

SyncedAccount == 1

Balances == {200}

\* what get_historical_balances returns: nothing, an exception, or balances
\* in the feed's currency for these days before today, oldest first
Histories == {<<>>, <<40>>, <<40, 39>>, <<40, 40>>, <<366, 1, 0>>}

HistoricalAnswers(currency, end_date) ==
  {[raised |-> TRUE, balances |-> <<>>]} \cup
  {[raised |-> FALSE, balances |-> [i \in 1..Len(h) |-> BalanceInfo(200 + 200 * i, currency, end_date - h[i])]] : h \in Histories}

\* the snapshot part of a completed authentication: _complete_sync with the
\* balance the integration reports today
SyncData(balance, historical, api) ==
  /\ hresp.seq < MaxDataSyncs
  /\ LET stored == store_balance(SyncedAccount, snapshots, rates, BalanceInfo(balance, feed.currency, today), api)
         runs == ~stored.raised /\ supports_historical_data(feed.variant)
         filled == backfill_historical(SyncedAccount, feed.variant, stored.snapshots, stored.rates, today, historical, api, stored.persisted)
     IN /\ snapshots' = IF runs THEN filled.snapshots ELSE stored.snapshots
        /\ rates' = IF runs THEN filled.rates ELSE stored.rates
        /\ hresp' = [op |-> "sync", seq |-> hresp.seq + 1,
                     raised |-> stored.raised,
                     backfill |-> runs,
                     historical |-> historical.balances,
                     before |-> IF runs THEN filled.before ELSE {},
                     window |-> IF runs THEN filled.window ELSE <<>>,
                     looped |-> runs /\ filled.looped,
                     count |-> IF runs THEN filled.count ELSE 0,
                     persisted |-> IF runs THEN filled.persisted ELSE stored.persisted,
                     prev |-> IF hresp.op = "sync" THEN [looped |-> hresp.looped, historical |-> hresp.historical] ELSE [looped |-> FALSE, historical |-> <<>>]]
  /\ UNCHANGED <<today, feed>>
  /\ HistFrame

BackfillNext == \E balance \in Balances, historical \in HistoricalAnswers(feed.currency, today), api \in ApiAnswers : SyncData(balance, historical, api)

\* days before today on which the account has no snapshot yet: a year of
\* daily snapshots with a few days missing, for an account whose integration
\* plans its request, or no snapshot at all
GapFamilies == {{}, {2}, {3}, {40}, {365}, {366}, {40, 100}, 1..370}

Coverage(gaps, currency, end_date) ==
  {Snapshot(SyncedAccount, end_date - k, currency, 200, IF currency = BaseCurrency THEN 200 ELSE None, Cardinality({j \in (1..370) \ gaps : j >= k})) : k \in (1..370) \ gaps}

BackfillInit ==
  /\ SessTable /\ ConcIdle /\ VaultIdle /\ MigIdle /\ SyncIdle /\ IntegIdle
  /\ today = SyncDay
  /\ feed \in [variant : {"fints", "truewealth", "ibkr_flex"}, currency : Currencies]
  /\ rates \in {{}, {RateRow("USD", "EUR", 20, 50)}, {RateRow("USD", "EUR", 20, 100)}}
  /\ \E gaps \in GapFamilies :
       /\ snapshots = Coverage(gaps, feed.currency, today)
       /\ gaps # 1..370 => feed = [variant |-> "truewealth", currency |-> BaseCurrency] /\ rates = {}
  /\ hresp = [op |-> "none", seq |-> 0]

SpecBackfill == BackfillInit /\ [][BackfillNext]_vars

\* the snapshots the last request's backfill created
Backfilled == {r \in snapshots : \E p \in hresp.persisted : p.id = r.id /\ p.by = "backfill"}

\* C21: backfill never creates a snapshot for a date the account already has
\* one for, dates created earlier in the same run included; a second run
\* over the same returned history creates nothing and reports zero; the
\* reported count equals the number of snapshots created.
C21_BackfillIdempotent ==
  (hresp.op = "sync" /\ hresp.backfill) =>
    /\ \A r \in Backfilled : r.snapshot_date \notin hresp.before
    /\ \A r \in Backfilled, q \in Backfilled : r.snapshot_date = q.snapshot_date => r = q
    /\ hresp.count = Cardinality(Backfilled)
    /\ (hresp.looped /\ hresp.prev.looped /\ hresp.prev.historical = hresp.historical) => Backfilled = {} /\ hresp.count = 0

\* C22 (as amended): for an integration that needs an extra request for
\* history, the oldest gap is the earliest date d with
\* today-365 <= d <= today-3 on which the account has no snapshot; the
\* window requested is [d - 5, today], never longer than 370 days; when no
\* date of that range lacks a snapshot, 0 is returned and
\* get_historical_balances is not called.
C22_PlannerWindow ==
  (hresp.op = "sync" /\ hresp.backfill /\ historical_data_requires_extra_request(feed.variant)) =>
    LET lacking == {d \in (today - 365)..(today - 3) : d \notin hresp.before}
    IN IF lacking = {} THEN hresp.window = <<>> /\ hresp.count = 0 /\ Backfilled = {}
       ELSE \E d \in lacking :
              /\ \A e \in lacking : d <= e
              /\ hresp.window = <<d - 5, today>>
              /\ today - (d - 5) <= 370

\* C22 as stated: the same with the range today-365 <= d <= today-2.
C22_PlannerWindowAsStated ==
  (hresp.op = "sync" /\ hresp.backfill /\ historical_data_requires_extra_request(feed.variant)) =>
    LET lacking == {d \in (today - 365)..(today - 2) : d \notin hresp.before}
    IN IF lacking = {} THEN hresp.window = <<>> /\ hresp.count = 0 /\ Backfilled = {}
       ELSE \E d \in lacking :
              /\ \A e \in lacking : d <= e
              /\ hresp.window = <<d - 5, today>>
              /\ today - (d - 5) <= 370

C22_Witness ==
  /\ hresp.op = "sync"
  /\ hresp.backfill
  /\ feed.variant = "truewealth"
  /\ hresp.before = ((today - 370)..today) \ {today - 40}
  /\ hresp.window = <<today - 45, today>>

\* C23: every snapshot a sync or its backfill persisted in a currency other
\* than the base currency has a null base balance exactly when the rate
\* lookup found no rate, and balance x rate when it found one.
C23_NullIffNoRate ==
  hresp.op = "sync" =>
    \A p \in hresp.persisted : \A r \in snapshots :
      (r.id = p.id /\ r.currency # BaseCurrency) =>
        /\ r.balance_base_currency = None <=> p.found = None
        /\ p.found # None => r.balance_base_currency = Mul(r.balance, p.found)

\* ------------------------------------------------------------------------
\* The wealth timeline (portfolio/views.py 802-920)
\* ------------------------------------------------------------------------
\* dates are the days 1..90 of a year that is not a leap year: January to
\* March
MonthLengths == <<31, 28, 31>>

MonthStart(month) == IF month = 1 THEN 0 ELSE IF month = 2 THEN 31 ELSE 59

\* d.month, d.day and date(year, month, day)
month_of(d) == IF d <= 31 THEN 1 ELSE IF d <= 59 THEN 2 ELSE 3

day_of(d) == d - MonthStart(month_of(d))

date_of(month, day) == MonthStart(month) + day

\* target_date of the month of d for a reference day
target_date(d, reference_day) ==
  LET last_day_of_month == MonthLengths[month_of(d)]
  IN date_of(month_of(d), IF reference_day < last_day_of_month THEN reference_day ELSE last_day_of_month)

\* the amount of a snapshot in the base currency, lines 838-846
snapshot_amount(r, rateRows) ==
  LET rate == get_rate(rateRows, r.currency, BaseCurrency, r.snapshot_date)
  IN IF r.balance_base_currency # None /\ r.balance_base_currency # 0 THEN r.balance_base_currency
     ELSE IF r.currency = BaseCurrency THEN r.balance
     ELSE IF rate # None /\ rate # 0 THEN Mul(r.balance, rate)
     ELSE 0

\* by_date of an account: per date the amount of the snapshot created last
by_date(rows, account, rateRows, end_date) ==
  LET mine == {r \in rows : r.account = account /\ r.snapshot_date <= end_date}
  IN {<<r.snapshot_date, snapshot_amount(r, rateRows)>> : r \in {q \in mine : \A o \in mine : o.snapshot_date = q.snapshot_date => o.id <= q.id}}

\* last_amount of an account on current_date, None when it has no snapshot
\* on or before it
last_amount(series, current_date) ==
  LET past == {e \in series : e[1] <= current_date}
  IN IF past = {} THEN None ELSE (CHOOSE e \in past : \A o \in past : o[1] <= e[1])[2]

RECURSIVE SumOf(_, _)
SumOf(S, f) == IF S = {} THEN 0 ELSE LET x == CHOOSE y \in S : TRUE IN f[x] + SumOf(S \ {x}, f)

\* daily_totals[current_date]
daily_total(rows, rateRows, end_date, current_date) ==
  LET holders == {r.account : r \in {q \in rows : q.snapshot_date <= end_date}}
      part == [account \in holders |-> LET a == last_amount(by_date(rows, account, rateRows, end_date), current_date) IN IF a = None THEN 0 ELSE a]
  IN SumOf(holders, part)

\* start_date of the range, lines 814-821
history_start(rows, end_date, days) ==
  LET oldest == Min({r.snapshot_date : r \in rows})
  IN IF rows # {} /\ oldest > end_date - days THEN oldest ELSE end_date - days

\* the loop of lines 885-905 over the daily points d..last of one month
\* (the entries of different months do not touch each other): the date the
\* month's entry holds, 0 while the month has no entry
RECURSIVE month_entry(_, _, _, _)
month_entry(d, last, target, existing_date) ==
  IF d > last THEN existing_date
  ELSE LET takes == \/ existing_date = 0
                    \/ d <= target /\ (existing_date > target \/ d > existing_date)
       IN month_entry(d + 1, last, target, IF takes THEN d ELSE existing_date)

\* monthly_totals: per month the date of the daily point it reports
monthly_totals(start, end_date, reference_day) ==
  [month \in 1..3 |->
     LET first == IF start > MonthStart(month) + 1 THEN start ELSE MonthStart(month) + 1
         last == IF end_date < MonthStart(month) + MonthLengths[month] THEN end_date ELSE MonthStart(month) + MonthLengths[month]
     IN IF first > last THEN 0 ELSE month_entry(first, last, target_date(first, reference_day), 0)]

\* GET /wealth/history/?days=..&granularity=..
WealthHistory(days, granularity) ==
  /\ LET start == history_start(snapshots, today, days)
         reported == monthly_totals(start, today, day_of(today))
     IN hresp' = [op |-> "history", seq |-> hresp.seq, granularity |-> granularity, start |-> start,
                  history |-> IF granularity = "monthly"
                                THEN {[date |-> target_date(reported[month], day_of(today)), of |-> reported[month], total_wealth |-> daily_total(snapshots, rates, today, reported[month])] : month \in {n \in 1..3 : reported[n] # 0}}
                                ELSE {[date |-> d, of |-> d, total_wealth |-> daily_total(snapshots, rates, today, d)] : d \in start..today}]
  /\ UNCHANGED <<today, snapshots, rates, feed>>
  /\ HistFrame

HistoryDays == {25, 30, 60}

TimelineNext == \E days \in HistoryDays, granularity \in {"daily", "monthly"} : WealthHistory(days, granularity)

\* snapshots the user's two accounts can have: a balance in the base
\* currency, balances in USD stored without a conversion or with one, two
\* snapshots of one date
TimelineRows == {Snapshot(1, 40, "EUR", 200, None, 1), Snapshot(1, 50, "USD", 400, None, 2), Snapshot(1, 50, "USD", 800, 400, 3), Snapshot(2, 45, "EUR", 600, None, 4), Snapshot(2, 62, "USD", 200, None, 5)}

TimelineInit ==
  /\ SessTable /\ ConcIdle /\ VaultIdle /\ MigIdle /\ SyncIdle /\ IntegIdle
  /\ today \in {64, 90}
  /\ feed = [variant |-> "fints", currency |-> "EUR"]
  /\ rates \in {{}, {RateRow("USD", "EUR", 48, 50)}, {RateRow("EUR", "USD", 61, 50)}}
  /\ snapshots \in SUBSET TimelineRows
  /\ \A r \in snapshots : (r.currency # BaseCurrency /\ r.balance_base_currency # None) => get_rate(rates, r.currency, BaseCurrency, r.snapshot_date) # None
  /\ hresp = [op |-> "none", seq |-> 0]

SpecTimeline == TimelineInit /\ [][TimelineNext]_vars

\* the base-currency balance a snapshot makes known: the stored one, the
\* balance itself in the base currency, or the balance converted with the
\* rate of its date; None when there is none
KnownBalance(r) ==
  LET rate == get_rate(rates, r.currency, BaseCurrency, r.snapshot_date)
  IN IF r.balance_base_currency # None THEN r.balance_base_currency
     ELSE IF r.currency = BaseCurrency THEN r.balance
     ELSE IF rate # None THEN Mul(r.balance, rate)
     ELSE None

\* what an account contributes on a day: its most recent known balance
Contribution(account, d) ==
  LET known == {r \in snapshots : r.account = account /\ r.snapshot_date <= d /\ KnownBalance(r) # None}
      recent == {r \in known : \A o \in known : o.snapshot_date < r.snapshot_date \/ (o.snapshot_date = r.snapshot_date /\ o.id <= r.id)}
  IN IF known = {} THEN 0 ELSE KnownBalance(CHOOSE r \in recent : TRUE)

\* C25: the daily total of every day of the range is the sum over the
\* user's accounts of the account's most recent known base-currency balance
\* dated on or before the day; an account without one contributes nothing.
C25_DailyTotalCarriesForward ==
  (hresp.op = "history" /\ hresp.granularity = "daily") =>
    /\ {p.date : p \in hresp.history} = hresp.start..today
    /\ \A p \in hresp.history :
         p.total_wealth = SumOf({r.account : r \in TimelineRows}, [account \in {r.account : r \in TimelineRows} |-> Contribution(account, p.date)])

\* C26: for every month with days in the range, the monthly point is the
\* daily point with the latest date on or before the month's target day
\* (the reference day, clamped to the month's last day), and no monthly
\* point is dated after its target day, also when all the month's days in
\* the range lie after it.
C26_MonthlyNotAfterTarget ==
  (hresp.op = "history" /\ hresp.granularity = "monthly") =>
    \A month \in {month_of(d) : d \in hresp.start..today} :
      LET target == target_date(date_of(month, 1), day_of(today))
          eligible == {d \in hresp.start..today : month_of(d) = month /\ d <= target}
      IN /\ \A p \in hresp.history : p.date = target => p.of <= target
         /\ eligible # {} => \E p \in hresp.history :
              /\ p.date = target
              /\ p.of \in eligible /\ \A d \in eligible : d <= p.of
              /\ p.total_wealth = daily_total(snapshots, rates, today, p.of)
====
